---- MODULE Spec2Model ----
(***************************************************************************)
(* StableLens: the data-freshness pipeline.                                *)
(*                                                                         *)
(*  - withCache (v2 / free-API edition): a Map of key -> {v, t} read with  *)
(*    a per-call TTL, refreshed through an asynchronous fetcher, with      *)
(*    stale-on-error.                                                      *)
(*  - the v1.x route handlers, which test and refresh the slot             *)
(*    cache.yields inline.                                                 *)
(*  - fetchWithRetry: a bounded retry loop around fetch().                 *)
(*  - getAllPools and GET /api/prices: the feeds whose refresh times are   *)
(*    tracked in statusTimes and read by the stale monitor.                *)
(*  - the scorers of stablecoins and platforms, buildAlerts and the depeg  *)
(*    monitor: pure functions, applied to records drawn from small sets.   *)
(*                                                                         *)
(* JavaScript runs each handler to its next await without interruption,    *)
(* so one action is the code between two awaits.  Time is the value of     *)
(* Date.now(), counted in ticks; every TTL is given in ticks.              *)
(***************************************************************************)
EXTENDS Integers, Sequences, FiniteSets, TLC

\* ---------------------------------------------------------------- bounds
NumCallers == 2      \* requests that may overlap
MaxAttempts == 3     \* largest `attempts` argument of fetchWithRetry
MaxClock   == 2      \* last value of Date.now() explored
MaxInv     == 4      \* producer invocations started in one run
MaxIncidents == 4    \* largest depegIncidents argument of the stablecoin scorers
MaxEvents  == 3      \* largest `events` field of a CeFi platform
MaxItems   == 3      \* stablecoins and news items handed to buildAlerts
MaxRows    == 3      \* monitor runs go on while alert_events has fewer rows
MaxShort   == 2      \* items of a news feed whose dates may be of any kind
MaxNewsClock == 12   \* the clock of the news route, which outlives two TTLs

Callers == 1..NumCallers
Keys    == {"prices", "yields:pools"}
TTLs    == {1, 2}

\* TTL.yields of the v1.x handlers (5 * 60 * 1000 ms), one tick being 5 minutes
TTL_yields == 1

\* v2, in the same ticks: withCache("yields:pools", 10*60_000, ...) and
\* withCache("prices", 60_000, ...); ages are whole ticks, so the test
\* age < 60 s is the test age < 1 tick
TTL_pools  == 2
TTL_prices == 1
TTL_news   == 6      \* withCache("news:fed+bis", 30*60_000, ...)
NewsKey    == "news:fed+bis"

\* the stale monitor: tooOld(statusTimes.yields, 20*60_000) and
\* tooOld(statusTimes.prices, 5*60_000)
StaleYields == 4
StalePrices == 1

\* fetchWithRetry(url, opts = {}, attempts = 3, backoffMs = 300); waits are
\* counted in units of 300 ms
DefaultAttempts == 3
DefaultBackoff  == 1

\* Date.now() when the process started, in ticks since the epoch
BootTime == 10

(***************************************************************************)
(* A payload is opaque to the cache, so the payload (or the error) of the  *)
(* n-th producer invocation is written n: two invocations never yield the  *)
(* same value, and a stored value names the invocation that produced it.   *)
(* The v1.x fetcher also yields the empty array [], written 0.             *)
(***************************************************************************)
VARIABLES
  clock,      \* Date.now()
  cache,      \* v2: const cache = new Map(); key -> [has, v, t]
  memory,     \* v1.x: the slot cache.yields = { data, t }
  prewarm,    \* v1.x: the invocation prewarm() awaits, 0 once it has stored
  call,       \* per request: position in withCache or in the v1.x handler
  nextInv,    \* number of producer invocations started so far
  lastOk,     \* history: per key, the last successfully completed producer call
  memoryInv,    \* history: the invocation that wrote cache.yields last
  fetchSt,    \* one fetchWithRetry call
  statusTimes,\* v2: const statusTimes = { prices, yields, ... }
  sweep,      \* v2: what the last run of the stale monitor handed to alert()
  scoreSt,    \* the scorers: the record scored last and what each scorer returned
  alertSt,    \* buildAlerts / depeg monitor: the snapshot read last and the alerts
  sinkSt,     \* the sinks: what is configured, the rows of alert_events, the Slack posts
  prodSt,     \* one producer call: its position, what it queried, what it returned
  registry    \* the static registries: SEEDED_STABLES, SEEDED_PLATFORMS, SC, PLATFORMS

vars == <<clock, cache, memory, prewarm, call, nextInv, lastOk, memoryInv, fetchSt,
         statusTimes, sweep, scoreSt, alertSt, sinkSt, prodSt, registry>>

\* ------------------------------------------------------------- withCache
\* cache.get(key) of a key that was never set
NoEntry == [has |-> FALSE, v |-> 0, t |-> 0]

\* if (entry && (now() - entry.t) < ttlMs) return entry.v;
IsFresh_reversed(entry, nowT, ttl) == entry.has /\ (nowT - entry.t) > ttl
IsFresh(entry, nowT, ttl) == entry.has /\ (nowT - entry.t) < ttl

\* cache.set(key, { v, t: now() })
CacheSet_keepT(c, k, v, t) ==
  [c EXCEPT ![k] = [has |-> TRUE, v |-> v, t |-> IF c[k].has THEN c[k].t ELSE t]]
CacheSet_allKeys(c, k, v, t) == [kk \in DOMAIN c |-> [has |-> TRUE, v |-> v, t |-> t]]
CacheSet_dropOld(c, k, v, t) ==
  [c EXCEPT ![k] = IF c[k].has THEN NoEntry ELSE [has |-> TRUE, v |-> v, t |-> t]]
CacheSet(c, k, v, t) == [c EXCEPT ![k] = [has |-> TRUE, v |-> v, t |-> t]]

\* catch (e) { if (entry) return entry.v; throw e; }
OnError_alwaysThrow(entry, e) == [out |-> "throw", res |-> 0, err |-> e]
OnError_swallow(entry, e) == [out |-> "return", res |-> entry.v, err |-> 0]
OnError(entry, e) ==
  IF entry.has THEN [out |-> "return", res |-> entry.v, err |-> 0]
               ELSE [out |-> "throw", res |-> 0, err |-> e]

\* The fields of a request: route and arguments, the entry read on entry
\* (const entry = cache.get(key)), the time of that read, the producer
\* invocation it started (inv, 0 if none) and how that ended (prod), and the
\* outcome handed to the caller (out, res, err).
IdleCall ==
  [pc |-> "idle", route |-> "none", key |-> "none", ttl |-> 0, entry |-> NoEntry,
   t0 |-> 0, inv |-> 0, prod |-> "none", out |-> "none", res |-> 0, err |-> 0, sym |-> ""]

\* withCache(key, ttlMs, fetcher) up to `await fetcher()`
WithCache(c, k, ttl) ==
  /\ call[c].pc = "idle"
  /\ LET entry == cache[k]
         base  == [IdleCall EXCEPT !.route = "withCache", !.key = k, !.ttl = ttl,
                                   !.entry = entry, !.t0 = clock]
     IN IF IsFresh(entry, clock, ttl)
        THEN /\ call' = [call EXCEPT ![c] =
                   [base EXCEPT !.pc = "done", !.out = "return", !.res = entry.v]]
             /\ UNCHANGED nextInv
        ELSE /\ nextInv < MaxInv
             /\ nextInv' = nextInv + 1
             /\ call' = [call EXCEPT ![c] =
                   [base EXCEPT !.pc = "await", !.prod = "pending", !.inv = nextInv + 1]]
  /\ UNCHANGED <<clock, cache, memory, prewarm, lastOk, memoryInv, fetchSt,
               statusTimes, sweep, scoreSt, alertSt, sinkSt, prodSt, registry>>

\* the fetcher's promise fulfils: cache.set(key, {v, t: now()}); return v;
FetcherResolve(c) ==
  /\ call[c].pc = "await" /\ call[c].route = "withCache"
  /\ LET v == call[c].inv
     IN /\ cache' = CacheSet(cache, call[c].key, v, clock)
        /\ call' = [call EXCEPT ![c] =
              [@ EXCEPT !.pc = "done", !.prod = "ok", !.out = "return", !.res = v]]
        /\ lastOk' = [lastOk EXCEPT ![call[c].key] = [has |-> TRUE, v |-> v, t |-> clock]]
  /\ UNCHANGED <<clock, memory, prewarm, nextInv, memoryInv, fetchSt,
               statusTimes, sweep, scoreSt, alertSt, sinkSt, prodSt, registry>>

FetcherReject_reread(c) ==
  /\ call[c].pc = "await" /\ call[c].route = "withCache"
  /\ LET r == OnError(cache[call[c].key], call[c].inv)
     IN call' = [call EXCEPT ![c] =
          [@ EXCEPT !.pc = "done", !.prod = "fail", !.out = r.out, !.res = r.res, !.err = r.err]]
  /\ UNCHANGED <<clock, cache, memory, prewarm, nextInv, lastOk, memoryInv, fetchSt,
               statusTimes, sweep, scoreSt, alertSt, sinkSt, prodSt, registry>>

FetcherReject_touch(c) ==
  /\ call[c].pc = "await" /\ call[c].route = "withCache"
  /\ LET r == OnError(call[c].entry, call[c].inv)
     IN /\ call' = [call EXCEPT ![c] =
             [@ EXCEPT !.pc = "done", !.prod = "fail", !.out = r.out, !.res = r.res, !.err = r.err]]
        /\ cache' = IF call[c].entry.has
                    THEN CacheSet(cache, call[c].key, cache[call[c].key].v, clock)
                    ELSE cache
  /\ UNCHANGED <<clock, memory, prewarm, nextInv, lastOk, memoryInv, fetchSt,
               statusTimes, sweep, scoreSt, alertSt, sinkSt, prodSt, registry>>

\* the fetcher's promise rejects: the catch block
FetcherReject(c) ==
  /\ call[c].pc = "await" /\ call[c].route = "withCache"
  /\ LET r == OnError(call[c].entry, call[c].inv)
     IN call' = [call EXCEPT ![c] =
          [@ EXCEPT !.pc = "done", !.prod = "fail", !.out = r.out, !.res = r.res, !.err = r.err]]
  /\ UNCHANGED <<clock, cache, memory, prewarm, nextInv, lastOk, memoryInv, fetchSt,
               statusTimes, sweep, scoreSt, alertSt, sinkSt, prodSt, registry>>

\* ------------------------------------------- v1.x handlers (inline check)
\* if (!cache.yields.data || Date.now()-cache.yields.t>TTL.yields)
NeedsRefresh(slot, nowT, ttl) == (~slot.has) \/ (nowT - slot.t) > ttl

\* safeJSON + fetchYieldsFromLlama: json.data when the reply is ok and holds
\* an array, [] otherwise; never throws
FetchYieldsFromLlama(reply, data) == IF reply = "pools" THEN data ELSE 0
Replies == {"pools", "malformed", "http"}

\* GET /api/yields up to `await fetchYieldsFromLlama()`
YieldsRequest(c) ==
  /\ call[c].pc = "idle"
  /\ LET base == [IdleCall EXCEPT !.route = "yields", !.key = "yields", !.ttl = TTL_yields,
                                  !.entry = memory, !.t0 = clock]
     IN IF NeedsRefresh(memory, clock, TTL_yields)
        THEN /\ nextInv < MaxInv
             /\ nextInv' = nextInv + 1
             /\ call' = [call EXCEPT ![c] =
                   [base EXCEPT !.pc = "await", !.prod = "pending", !.inv = nextInv + 1]]
        ELSE /\ call' = [call EXCEPT ![c] =
                   [base EXCEPT !.pc = "done", !.out = "return", !.res = memory.v]]
             /\ UNCHANGED nextInv
  /\ UNCHANGED <<clock, cache, memory, prewarm, lastOk, memoryInv, fetchSt,
               statusTimes, sweep, scoreSt, alertSt, sinkSt, prodSt, registry>>

\* cache.yields = { data: <fetched>, t: Date.now() }; ... res.json({ pools })
YieldsFetched(c, reply) ==
  /\ call[c].pc = "await" /\ call[c].route = "yields"
  /\ LET data == FetchYieldsFromLlama(reply, call[c].inv)
     IN /\ memory' = [has |-> TRUE, v |-> data, t |-> clock]
        /\ call' = [call EXCEPT ![c] =
              [@ EXCEPT !.pc = "done", !.prod = reply, !.out = "return", !.res = data]]
  /\ memoryInv' = call[c].inv
  /\ UNCHANGED <<clock, cache, prewarm, nextInv, lastOk, fetchSt,
               statusTimes, sweep, scoreSt, alertSt, sinkSt, prodSt, registry>>

\* prewarm(): const [y,n] = await Promise.all([...]); cache.yields = { data: y, t }
PrewarmDone(reply) ==
  /\ prewarm # 0
  /\ memory' = [has |-> TRUE, v |-> FetchYieldsFromLlama(reply, prewarm), t |-> clock]
  /\ memoryInv' = prewarm
  /\ prewarm' = 0
  /\ UNCHANGED <<clock, cache, call, nextInv, lastOk, fetchSt,
               statusTimes, sweep, scoreSt, alertSt, sinkSt, prodSt, registry>>

\* the caller has consumed the result; the request slot is free again
Respond(c) ==
  /\ call[c].pc = "done"
  /\ call' = [call EXCEPT ![c] = IdleCall]
  /\ UNCHANGED <<clock, cache, memory, prewarm, nextInv, lastOk, memoryInv, fetchSt,
               statusTimes, sweep, scoreSt, alertSt, sinkSt, prodSt, registry>>

\* Date.now() advances
Tick ==
  /\ clock < MaxClock
  /\ clock' = clock + 1
  /\ UNCHANGED <<cache, memory, prewarm, call, nextInv, lastOk, memoryInv, fetchSt,
               statusTimes, sweep, scoreSt, alertSt, sinkSt, prodSt, registry>>

\* const statusTimes = { prices: 0, yields: 0, ... }: 0 is the epoch, which
\* lies BootTime ticks before the process started; nothing has been swept,
\* scored or derived yet
InitStatus ==
  /\ statusTimes = [prices |-> 0, yields |-> 0, news |-> 0]
  /\ sweep = [seq |-> 0, stale |-> {}]

InitPure ==
  /\ scoreSt = [op |-> "none"]
  /\ alertSt = [op |-> "none"]

\* the process was started with or without DATABASE_URL and SLACK_WEBHOOK_URL
InitSinks ==
  \E pool \in BOOLEAN, webhook \in BOOLEAN :
    sinkSt = [pool |-> pool, webhook |-> webhook, rows |-> << >>, posts |-> << >>]

\* prewarm() has started its fetch (invocation 1) and not yet stored it
InitCache ==
  /\ clock = 0
  /\ cache = [k \in Keys \cup {NewsKey} |-> NoEntry]
  /\ memory = NoEntry
  /\ prewarm = 1
  /\ call = [c \in Callers |-> IdleCall]
  /\ nextInv = 1
  /\ lastOk = [k \in Keys |-> NoEntry]
  /\ memoryInv = 0

\* --------------------------------------------------------- fetchWithRetry
\* what one `await fetch(...)` can end in: an ok response, or an exception:
\* a non-ok status (throw new Error(`${url} -> ${r.status}`)), a network
\* error, or the AbortSignal.timeout
FetchErrs == {"status", "network", "timeout"}
Backoffs  == {1, 2}

\* for (let i = 0; i < attempts; i++)
LoopContinues_inclusive(i, attempts) == i <= attempts
LoopContinues_doWhile(i, attempts) == i = 0 \/ i < attempts
LoopContinues(i, attempts) == i < attempts

\* catch (e) { lastErr = e; ... }
CatchErr_keepFirst(lastErr, e) == IF lastErr = "undefined" THEN e ELSE lastErr
CatchErr(lastErr, e) == e

\* setTimeout(res, backoffMs * (i + 1))
BackoffDelay_fixed(backoffMs, i) == backoffMs
BackoffDelay(backoffMs, i) == backoffMs * (i + 1)

\* attempts, backoffMs: the arguments; i, lastErr: the locals; requests: the
\* fetch() calls issued; log: how each ended, in order; waited: the backoff
\* time slept so far; err: the value thrown
IdleFetch ==
  [pc |-> "idle", attempts |-> 0, backoffMs |-> 0, i |-> 0, lastErr |-> "undefined",
   requests |-> 0, log |-> <<>>, waited |-> 0, err |-> "undefined"]

\* the head of the loop at index i: issue the next request, or leave the loop
\* and `throw lastErr`
\* a loop whose exhausted exit neither returns nor throws
LoopHead_stuck(f, i) ==
  IF LoopContinues(i, f.attempts)
  THEN [f EXCEPT !.pc = "request", !.i = i, !.requests = f.requests + 1]
  ELSE [f EXCEPT !.pc = "stuck", !.i = i]

LoopHead(f, i) ==
  IF LoopContinues(i, f.attempts)
  THEN [f EXCEPT !.pc = "request", !.i = i, !.requests = f.requests + 1]
  ELSE [f EXCEPT !.pc = "thrown", !.i = i, !.err = f.lastErr]

\* fetchWithRetry(url, opts, attempts, backoffMs)
FetchWithRetry(attempts, backoffMs) ==
  /\ fetchSt.pc = "idle"
  /\ fetchSt' = LoopHead([IdleFetch EXCEPT !.attempts = attempts, !.backoffMs = backoffMs], 0)
  /\ UNCHANGED <<clock, cache, memory, prewarm, call, nextInv, lastOk, memoryInv,
               statusTimes, sweep, scoreSt, alertSt, sinkSt, prodSt, registry>>

\* r.ok: return r;
AttemptOk ==
  /\ fetchSt.pc = "request"
  /\ fetchSt' = [fetchSt EXCEPT !.pc = "returned", !.log = Append(@, "ok")]
  /\ UNCHANGED <<clock, cache, memory, prewarm, call, nextInv, lastOk, memoryInv,
               statusTimes, sweep, scoreSt, alertSt, sinkSt, prodSt, registry>>

\* a loop that skips the sleep after its last attempt
AttemptFail_lastThrows(e) ==
  /\ fetchSt.pc = "request"
  /\ fetchSt' =
       IF fetchSt.i + 1 < fetchSt.attempts
       THEN [fetchSt EXCEPT !.pc = "backoff", !.log = Append(@, e),
                            !.lastErr = CatchErr(fetchSt.lastErr, e)]
       ELSE [fetchSt EXCEPT !.pc = "thrown", !.log = Append(@, e), !.i = fetchSt.i + 1,
                            !.lastErr = CatchErr(fetchSt.lastErr, e),
                            !.err = CatchErr(fetchSt.lastErr, e)]
  /\ UNCHANGED <<clock, cache, memory, prewarm, call, nextInv, lastOk, memoryInv,
               statusTimes, sweep, scoreSt, alertSt, sinkSt, prodSt, registry>>

\* fetch rejects or !r.ok: lastErr = e; the backoff timer is armed
AttemptFail(e) ==
  /\ fetchSt.pc = "request"
  /\ fetchSt' = [fetchSt EXCEPT !.pc = "backoff", !.log = Append(@, e),
                                !.lastErr = CatchErr(fetchSt.lastErr, e)]
  /\ UNCHANGED <<clock, cache, memory, prewarm, call, nextInv, lastOk, memoryInv,
               statusTimes, sweep, scoreSt, alertSt, sinkSt, prodSt, registry>>

\* the backoff timer fires: i++ and back to the head of the loop
BackoffElapsed ==
  /\ fetchSt.pc = "backoff"
  /\ fetchSt' = LoopHead([fetchSt EXCEPT !.waited = @ + BackoffDelay(fetchSt.backoffMs, fetchSt.i)],
                         fetchSt.i + 1)
  /\ UNCHANGED <<clock, cache, memory, prewarm, call, nextInv, lastOk, memoryInv,
               statusTimes, sweep, scoreSt, alertSt, sinkSt, prodSt, registry>>

\* the caller has the response or the exception; a new call may start
FetchSettled ==
  /\ fetchSt.pc \in {"returned", "thrown"}
  /\ fetchSt' = IdleFetch
  /\ UNCHANGED <<clock, cache, memory, prewarm, call, nextInv, lastOk, memoryInv,
               statusTimes, sweep, scoreSt, alertSt, sinkSt, prodSt, registry>>

\* ------------------------------------------- getAllPools (v2 yields feed)
\* Date.now() as an absolute time; cache timestamps are only ever compared
\* with each other and stay relative to the start of the process
DateNow == BootTime + clock

\* what `await r.json()` and out?.data can be: an array of pools, something
\* that is not an array, or a body that is not JSON (r.json() rejects)
Bodies == {"array", "notArray", "invalid"}

\* the request, if any, whose producer is the fetchWithRetry call in fetchSt
PoolsAwaiting == {c \in Callers : call[c].pc = "await" /\ call[c].route = "pools"}

\* getAllPools(): withCache("yields:pools", 10*60_000, producer) up to the
\* producer's `await fetchWithRetry(...)`.  One retry loop is followed at a
\* time: a request that needs the producer starts when fetchSt is idle.
GetAllPools(c) ==
  /\ call[c].pc = "idle"
  /\ LET entry == cache["yields:pools"]
         base  == [IdleCall EXCEPT !.route = "pools", !.key = "yields:pools",
                                   !.ttl = TTL_pools, !.entry = entry, !.t0 = clock]
     IN IF IsFresh(entry, clock, TTL_pools)
        THEN /\ call' = [call EXCEPT ![c] =
                   [base EXCEPT !.pc = "done", !.out = "return", !.res = entry.v]]
             /\ UNCHANGED <<nextInv, fetchSt>>
        ELSE /\ nextInv < MaxInv
             /\ fetchSt.pc = "idle"
             /\ nextInv' = nextInv + 1
             /\ fetchSt' = LoopHead([IdleFetch EXCEPT !.attempts = DefaultAttempts,
                                                      !.backoffMs = DefaultBackoff], 0)
             /\ call' = [call EXCEPT ![c] =
                   [base EXCEPT !.pc = "await", !.prod = "pending", !.inv = nextInv + 1]]
  /\ UNCHANGED <<clock, cache, memory, prewarm, lastOk, memoryInv,
               statusTimes, sweep, scoreSt, alertSt, sinkSt, prodSt, registry>>

\* fetchWithRetry returned r: const out = await r.json();
\* statusTimes.yields = Date.now(); return Array.isArray(out?.data) ? out.data : [];
\* and withCache stores what the producer returned; a body that is not JSON
\* makes the producer throw before statusTimes is touched
PoolsJson(c, body) ==
  /\ c \in PoolsAwaiting
  /\ fetchSt.pc = "returned"
  /\ fetchSt' = IdleFetch
  /\ IF body = "invalid"
     THEN /\ LET r == OnError(call[c].entry, call[c].inv)
             IN call' = [call EXCEPT ![c] =
                  [@ EXCEPT !.pc = "done", !.prod = "fail", !.out = r.out,
                            !.res = r.res, !.err = r.err]]
          /\ UNCHANGED <<cache, lastOk, statusTimes>>
     ELSE /\ LET v == IF body = "array" THEN call[c].inv ELSE 0
             IN /\ cache' = CacheSet(cache, call[c].key, v, clock)
                /\ lastOk' = [lastOk EXCEPT ![call[c].key] = [has |-> TRUE, v |-> v, t |-> clock]]
                /\ call' = [call EXCEPT ![c] =
                      [@ EXCEPT !.pc = "done", !.prod = "ok", !.out = "return", !.res = v]]
          /\ statusTimes' = [statusTimes EXCEPT !.yields = DateNow]
  /\ UNCHANGED <<clock, memory, prewarm, nextInv, memoryInv, sweep, scoreSt, alertSt, sinkSt, prodSt, registry>>

\* fetchWithRetry threw lastErr: the producer rejects, withCache's catch block
PoolsThrown(c) ==
  /\ c \in PoolsAwaiting
  /\ fetchSt.pc = "thrown"
  /\ fetchSt' = IdleFetch
  /\ LET r == OnError(call[c].entry, call[c].inv)
     IN call' = [call EXCEPT ![c] =
          [@ EXCEPT !.pc = "done", !.prod = "fail", !.out = r.out, !.res = r.res, !.err = r.err]]
  /\ UNCHANGED <<clock, cache, memory, prewarm, nextInv, lastOk, memoryInv,
               statusTimes, sweep, scoreSt, alertSt, sinkSt, prodSt, registry>>

\* GET /api/yields: res.json({...pools}) or res.status(502)
PoolsRespond(c) == call[c].route = "pools" /\ Respond(c)

\* ----------------------------------------------------------------- strings
(***************************************************************************)
(* Texts are strings; toLowerCase, toUpperCase, includes and the regular   *)
(* expressions of the scorers are computed character by character.         *)
(***************************************************************************)
Uppers == <<"A","B","C","D","E","F","G","H","I","J","K","L","M",
            "N","O","P","Q","R","S","T","U","V","W","X","Y","Z">>
Lowers == <<"a","b","c","d","e","f","g","h","i","j","k","l","m",
            "n","o","p","q","r","s","t","u","v","w","x","y","z">>

lowerChar(ch) ==
  IF \E k \in 1..26 : Uppers[k] = ch
  THEN Lowers[CHOOSE k \in 1..26 : Uppers[k] = ch] ELSE ch
upperChar(ch) ==
  IF \E k \in 1..26 : Lowers[k] = ch
  THEN Uppers[CHOOSE k \in 1..26 : Lowers[k] = ch] ELSE ch

RECURSIVE toLowerCase(_)
toLowerCase(s) ==
  IF Len(s) = 0 THEN ""
  ELSE lowerChar(SubSeq(s, 1, 1)) \o toLowerCase(SubSeq(s, 2, Len(s)))

RECURSIVE toUpperCase(_)
toUpperCase(s) ==
  IF Len(s) = 0 THEN ""
  ELSE upperChar(SubSeq(s, 1, 1)) \o toUpperCase(SubSeq(s, 2, Len(s)))

\* String.prototype.includes
includes(s, t) ==
  \E p \in 1..(Len(s) + 1 - Len(t)) : SubSeq(s, p, p + Len(t) - 1) = t

\* /(NYDFS|US\s*\(MSB)/i.test(s): NYDFS, or US, any run of blanks, (MSB
TestRegulated(s) ==
  LET u == toUpperCase(s)
  IN \/ includes(u, "NYDFS")
     \/ \E p \in 1..Len(u), k \in 0..Len(u) :
          /\ p + 5 + k <= Len(u)
          /\ SubSeq(u, p, p + 1) = "US"
          /\ \A j \in 1..k : SubSeq(u, p + 1 + j, p + 1 + j) = " "
          /\ SubSeq(u, p + 2 + k, p + 5 + k) = "(MSB"

\* /OFFSHORE|DECENTRALIZED/i.test(s)
TestOffshore(s) ==
  LET u == toUpperCase(s)
  IN includes(u, "OFFSHORE") \/ includes(u, "DECENTRALIZED")

\* /NYDFS|TRUST|MSB|VASP/i.test(x)
TestLicense(x) ==
  LET u == toUpperCase(x)
  IN includes(u, "NYDFS") \/ includes(u, "TRUST") \/ includes(u, "MSB") \/ includes(u, "VASP")

\* ----------------------------------------------------------------- scoring
(***************************************************************************)
(* Scores are kept in hundredths (5 is 500, 0.7 is 70), so that rounding   *)
(* to one decimal is an operation that changes values.                     *)
(***************************************************************************)
MathMax(a, b) == IF a >= b THEN a ELSE b
MathMin(a, b) == IF a <= b THEN a ELSE b
\* Math.round(n * 10) for n in hundredths: the nearest tenth, halves upwards
MathRound10(n) == (n + 5) \div 10

\* clamp10 that forgets to round
clamp10_noRound(n) == MathMax(100, MathMin(1000, n))
\* function clamp10(n){ return Math.max(1, Math.min(10, Math.round(n*10)/10)); }
clamp10(n) == MathMax(100, MathMin(1000, MathRound10(n) * 10))

jurisdictionToKey(s) == toUpperCase(s)

\* v1.2 / v1.4 scoreStablecoin
scoreStablecoin(sc, depegIncidents) ==
  LET juris   == sc.jurisdiction
      auditor == toLowerCase(sc.auditor)
      genius  == toLowerCase(sc.genius)
      s1 == 500 + (IF TestRegulated(juris) THEN 200 ELSE 0)
      s2 == s1 + (IF includes(auditor, "grant thornton") THEN 100 ELSE 0)
      s3 == s2 + (IF includes(auditor, "withum") THEN 80 ELSE 0)
      s4 == s3 + (IF includes(auditor, "bdo") THEN 30 ELSE 0)
      s5 == s4 - (IF sc.model = "crypto-collateralized" THEN 80 ELSE 0)
      s6 == s5 - (IF TestOffshore(jurisdictionToKey(juris)) THEN 70 ELSE 0)
      s7 == s6 + (IF genius = "yes" \/ genius = "likely" THEN 150 ELSE 0)
  IN clamp10(s7 - MathMin(200, depegIncidents * 70))

\* v1.2 / v1.4 scoreBreakdown: the parts and their clamped sum
scoreBreakdown(sc, depegIncidents) ==
  LET auditor == toLowerCase(sc.auditor)
      parts == [
        base         |-> 500,
        jurisdiction |-> IF TestRegulated(sc.jurisdiction) THEN 200 ELSE 0,
        auditor      |-> IF includes(auditor, "grant thornton") THEN 100
                         ELSE IF includes(auditor, "withum") THEN 80
                         ELSE IF includes(auditor, "bdo") THEN 30 ELSE 0,
        model        |-> IF sc.model = "crypto-collateralized" THEN 0 - 80 ELSE 0,
        offshore     |-> IF TestOffshore(jurisdictionToKey(sc.jurisdiction)) THEN 0 - 70 ELSE 0,
        genius       |-> IF includes(toLowerCase(sc.genius), "yes")
                            \/ includes(toLowerCase(sc.genius), "likely")
                         THEN 150 ELSE 0,
        depeg        |-> 0 - MathMin(200, depegIncidents * 70) ]
  IN [parts |-> parts,
      total |-> clamp10(parts.base + parts.jurisdiction + parts.auditor + parts.model
                        + parts.offshore + parts.genius + parts.depeg)]

\* v2 scoreStablecoin: includes() on the texts as written, its own clamp
scoreStablecoinV2(sc, depegIncidents) ==
  LET s1 == 500 + (IF includes(sc.jurisdiction, "NYDFS") \/ includes(sc.jurisdiction, "US (MSB")
                   THEN 200 ELSE 0)
      s2 == s1 + (IF sc.auditor # "" /\ includes(toLowerCase(sc.auditor), "grant thornton")
                  THEN 100 ELSE 0)
      s3 == s2 + (IF sc.auditor # "" /\ includes(toLowerCase(sc.auditor), "withum")
                  THEN 80 ELSE 0)
      s4 == s3 + (IF sc.auditor # "" /\ includes(toLowerCase(sc.auditor), "bdo")
                  THEN 30 ELSE 0)
      s5 == s4 - (IF sc.model = "crypto-collateralized" THEN 80 ELSE 0)
      s6 == s5 + (IF sc.genius = "yes" \/ sc.genius = "likely" THEN 150 ELSE 0)
      s7 == s6 - (IF includes(sc.jurisdiction, "offshore")
                     \/ includes(sc.jurisdiction, "decentralized") THEN 70 ELSE 0)
      s  == s7 - MathMin(200, depegIncidents * 70)
  IN MathMax(100, MathMin(1000, MathRound10(s) * 10))

\* p.scoreBase || 6.5
BaseOf(p) == IF p.scoreBase = 0 THEN 650 ELSE p.scoreBase
\* (p.licenses || []).some(x => /NYDFS|TRUST|MSB|VASP/i.test(x))
SomeLicense(p) == \E i \in 1..Len(p.licenses) : TestLicense(p.licenses[i])

scorePlatform(p) ==
  LET s1 == BaseOf(p) + (IF SomeLicense(p) THEN 60 ELSE 0)
      s2 == s1 + (IF includes(toLowerCase(p.auditor), "deloitte") THEN 30 ELSE 0)
      s3 == s2 - (IF includes(toLowerCase(p.por), "partial") THEN 30 ELSE 0)
      s4 == s3 - (IF includes(toLowerCase(p.riskNotes), "regulatory action") THEN 80 ELSE 0)
  IN clamp10(s4)

platformBreakdown(p) ==
  LET parts == [
        base     |-> BaseOf(p),
        licenses |-> IF SomeLicense(p) THEN 60 ELSE 0,
        auditor  |-> IF includes(toLowerCase(p.auditor), "deloitte") THEN 30 ELSE 0,
        por      |-> IF includes(toLowerCase(p.por), "yes") THEN 40
                     ELSE IF includes(toLowerCase(p.por), "partial") THEN 0 - 20 ELSE 0,
        risk     |-> IF includes(toLowerCase(p.riskNotes), "regulatory action")
                     THEN 0 - 80 ELSE 0 ]
  IN [parts |-> parts,
      total |-> clamp10(parts.base + parts.licenses + parts.auditor + parts.por + parts.risk)]

\* scoreCeFi without the cap on the enforcement penalty
scoreCeFi_uncapped(p) ==
  LET s1 == 500 + (IF p.kyc THEN 150 ELSE 0)
      s2 == s1 + (IF p.por = "yes" THEN 100 ELSE IF p.por = "partial" THEN 50 ELSE 0)
      s3 == s2 + (IF p.audit THEN 100 ELSE 0)
      s4 == s3 + (IF p.license = "high" THEN 100 ELSE IF p.license = "med" THEN 50 ELSE 0)
      s5 == s4 - p.events * 80
      s6 == s5 + (IF p.secAudit THEN 30 ELSE 0)
  IN MathMax(100, MathMin(1000, MathRound10(s6) * 10))

\* v2 scoreCeFi
scoreCeFi(p) ==
  LET s1 == 500 + (IF p.kyc THEN 150 ELSE 0)
      s2 == s1 + (IF p.por = "yes" THEN 100 ELSE IF p.por = "partial" THEN 50 ELSE 0)
      s3 == s2 + (IF p.audit THEN 100 ELSE 0)
      s4 == s3 + (IF p.license = "high" THEN 100 ELSE IF p.license = "med" THEN 50 ELSE 0)
      s5 == s4 - MathMin(200, p.events * 80)
      s6 == s5 + (IF p.secAudit THEN 30 ELSE 0)
  IN MathMax(100, MathMin(1000, MathRound10(s6) * 10))

\* v2 scoreDeFi; audits is the array of audit names
scoreDeFi(p) ==
  LET audits == Len(p.audits)
      s1 == 600 + (IF p.onchain THEN 100 ELSE 0)
      s2 == s1 + (IF audits >= 1 THEN 100 ELSE 0)
      s3 == s2 + (IF audits >= 2 THEN 50 ELSE 0)
      s4 == s3 + (IF p.formal THEN 50 ELSE 0)
      s5 == s4 - (IF p.algo THEN 150 ELSE 0)
      s6 == s5 - (IF p.depeg THEN 100 ELSE 0)
  IN MathMax(100, MathMin(1000, MathRound10(s6) * 10))

\* function platformScore(p){ return p.type==="DeFi"?scoreDeFi(p):scoreCeFi(p); }
platformScore(p) == IF p.type = "DeFi" THEN scoreDeFi(p) ELSE scoreCeFi(p)

\* the records scored: the texts of both registries (SEEDED_STABLES, SC) and
\* other spellings of the same words
Jurisdictions == {"NYDFS", "NYDFS Trust", "US (MSB) / EU EMI", "us  (msb)", "US",
                  "Offshore", "Offshore (multi-custody)", "BVI/HK (offshore)",
                  "Decentralized", "decentralized"}
Auditors      == {"Grant Thornton", "Grant Thornton (attest)", "Withum", "BDO",
                  "Grant Thornton, Withum", "Withum / BDO Italia", "Monthly attestations", ""}
Models        == {"fiat-backed", "crypto-collateralized", "hybrid"}
Geniuses      == {"yes", "likely", "Yes", "unlikely", "unknown"}
Stablecoins   == [jurisdiction : Jurisdictions, auditor : Auditors,
                  model : Models, genius : Geniuses]

\* SEEDED_PLATFORMS, with other bases: 0 stands for an absent scoreBase
ScoreBases   == {0, 0 - 300, 40, 630, 727, 830, 880, 990}
LicenseLists == {<< >>, <<"MSB", "EU VASP">>, <<"NY BitLicense", "Trust company">>,
                 <<"Local registrations vary">>}
PlatformAuditors == {"Deloitte", "Independent attestations", ""}
Pors         == {"Yes", "Yes/Partial", "Partial", "N/A"}
RiskNotes    == {"Regulatory actions/settlements noted", "Strong compliance posture", ""}
SeededPlatforms == [scoreBase : ScoreBases, licenses : LicenseLists,
                    auditor : PlatformAuditors, por : Pors, riskNotes : RiskNotes]

\* PLATFORMS of v2; a field a record does not carry has its falsy value
AuditLists == {<< >>, <<"Trail of Bits">>, <<"Trail of Bits", "Certora">>,
               <<"Trail of Bits", "OpenZeppelin", "Certora">>}
CeFiPlatforms ==
  [type : {"CeFi"}, kyc : BOOLEAN, por : {"yes", "partial", "n/a"}, audit : BOOLEAN,
   license : {"high", "med", "low"}, events : 0..MaxEvents, secAudit : BOOLEAN,
   onchain : {FALSE}, audits : {<< >>}, formal : {FALSE}, algo : {FALSE}, depeg : {FALSE}]
DeFiPlatforms ==
  [type : {"DeFi"}, kyc : {FALSE}, por : {""}, audit : {FALSE},
   license : {""}, events : {0}, secAudit : {FALSE},
   onchain : BOOLEAN, audits : AuditLists, formal : BOOLEAN, algo : BOOLEAN, depeg : BOOLEAN]
Platforms == CeFiPlatforms \cup DeFiPlatforms

\* a stablecoin record is scored by every scorer of the repository
ScoreStable(sc, n) ==
  /\ scoreSt.op = "none"
  /\ scoreSt' = [op |-> "stablecoin", sc |-> sc, incidents |-> n,
                 score     |-> scoreStablecoin(sc, n),
                 breakdown |-> scoreBreakdown(sc, n),
                 scoreV2   |-> scoreStablecoinV2(sc, n)]
  /\ UNCHANGED <<clock, cache, memory, prewarm, call, nextInv, lastOk, memoryInv,
               fetchSt, statusTimes, sweep, alertSt, sinkSt, prodSt, registry>>

\* the same record is scored again with one more depeg incident
OneMoreIncident ==
  /\ scoreSt.op = "stablecoin"
  /\ scoreSt.incidents < MaxIncidents
  /\ LET sc == scoreSt.sc
         n  == scoreSt.incidents + 1
     IN scoreSt' = [op |-> "stablecoin", sc |-> sc, incidents |-> n,
                    score     |-> scoreStablecoin(sc, n),
                    breakdown |-> scoreBreakdown(sc, n),
                    scoreV2   |-> scoreStablecoinV2(sc, n)]
  /\ UNCHANGED <<clock, cache, memory, prewarm, call, nextInv, lastOk, memoryInv,
               fetchSt, statusTimes, sweep, alertSt, sinkSt, prodSt, registry>>

\* buildPlatforms() attaches scorePlatform(p); GET /api/platforms/:name adds
\* platformBreakdown(item)
ScoreSeededPlatform(p) ==
  /\ scoreSt.op = "none"
  /\ scoreSt' = [op |-> "platform", p |-> p,
                 score     |-> scorePlatform(p),
                 breakdown |-> platformBreakdown(p)]
  /\ UNCHANGED <<clock, cache, memory, prewarm, call, nextInv, lastOk, memoryInv,
               fetchSt, statusTimes, sweep, alertSt, sinkSt, prodSt, registry>>

\* GET /api/platforms (v2): score: platformScore(p)
ScorePlatformV2(p) ==
  /\ scoreSt.op = "none"
  /\ scoreSt' = [op |-> "platformV2", p |-> p, score |-> platformScore(p)]
  /\ UNCHANGED <<clock, cache, memory, prewarm, call, nextInv, lastOk, memoryInv,
               fetchSt, statusTimes, sweep, alertSt, sinkSt, prodSt, registry>>

\* ------------------------------------------------------------------ alerts
(***************************************************************************)
(* Prices are counted in thousandths of a dollar (1000 is $1), so 0.015 is *)
(* 15, 0.02 is 20 and 0.05 is 50.  A price is a number or null.            *)
(***************************************************************************)
NullPrice == [isNumber |-> FALSE, v |-> 0]
Price(v)  == [isNumber |-> TRUE, v |-> v]
MathAbs(x) == IF x < 0 THEN 0 - x ELSE x

\* /enforcement|settlement|charge|lawsuit|penalty|consent order/.test(t)
TestEnforcement(t) ==
  \/ includes(t, "enforcement") \/ includes(t, "settlement") \/ includes(t, "charge")
  \/ includes(t, "lawsuit") \/ includes(t, "penalty") \/ includes(t, "consent order")
\* /(sec|cftc|doj|attorney general)/.test(t)
TestRegulator(t) ==
  \/ includes(t, "sec") \/ includes(t, "cftc") \/ includes(t, "doj")
  \/ includes(t, "attorney general")

\* a news rule that is content with one of the two patterns
IsRegulatory_either(n) ==
  LET t == toLowerCase(n.title) IN TestEnforcement(t) \/ TestRegulator(t)
\* the condition of news.forEach in buildAlerts
IsRegulatory(n) ==
  LET t == toLowerCase(n.title) IN TestEnforcement(t) /\ TestRegulator(t)

\* the condition of stablecoins.forEach in buildAlerts
IsDepegged(s) == s.price.isNumber /\ MathAbs(1000 - s.price.v) >= 15

\* alerts.slice(0, 50)
AlertsCap == 50

\* buildAlerts that walks the news before the stablecoins
buildAlerts_newsFirst(stablecoins, news) ==
  LET coins == SelectSeq(stablecoins, IsDepegged)
      items == SelectSeq(news, IsRegulatory)
      depeg == [i \in 1..Len(coins) |->
                 LET diff == MathAbs(1000 - coins[i].price.v)
                 IN [type |-> "depeg",
                     severity |-> IF diff >= 50 THEN "high" ELSE "medium",
                     symbol |-> coins[i].symbol, source |-> "",
                     message |-> <<coins[i].symbol, MathRound10(diff)>>]]
      regulatory == [i \in 1..Len(items) |->
                 [type |-> "regulatory", severity |-> "info",
                  symbol |-> "", source |-> items[i].source,
                  message |-> <<items[i].title>>]]
      alerts == regulatory \o depeg
  IN SubSeq(alerts, 1, MathMin(AlertsCap, Len(alerts)))

\* buildAlerts({stablecoins, news}): the depeg alerts in the order of the
\* stablecoins, then the regulatory alerts in the order of the news, cut at 50
buildAlerts(stablecoins, news) ==
  LET coins == SelectSeq(stablecoins, IsDepegged)
      items == SelectSeq(news, IsRegulatory)
      depeg == [i \in 1..Len(coins) |->
                 LET diff == MathAbs(1000 - coins[i].price.v)
                 IN [type |-> "depeg",
                     severity |-> IF diff >= 50 THEN "high" ELSE "medium",
                     symbol |-> coins[i].symbol, source |-> "",
                     message |-> <<coins[i].symbol, MathRound10(diff)>>]]
      regulatory == [i \in 1..Len(items) |->
                 [type |-> "regulatory", severity |-> "info",
                  symbol |-> "", source |-> items[i].source,
                  message |-> <<items[i].title>>]]
      alerts == depeg \o regulatory
  IN SubSeq(alerts, 1, MathMin(AlertsCap, Len(alerts)))

\* the depeg monitor's loop over Object.entries(r.data): the events handed
\* to alert()
depegMonitor(d) ==
  LET hit(e) == e.price.isNumber /\ MathAbs(1000 - e.price.v) >= 20
      coins == SelectSeq(d, hit)
  IN [i \in 1..Len(coins) |->
        [type |-> "depeg", entity_type |-> "coin", entity_key |-> coins[i].symbol,
         severity |-> IF MathAbs(1000 - coins[i].price.v) >= 50 THEN "critical" ELSE "warn"]]

\* the inputs: up to MaxItems stablecoins and news items in all
Symbols == <<"USDC", "USDT", "DAI", "sDAI", "FRAX", "PYUSD", "GHO", "RLUSD">>
Prices  == {NullPrice, Price(1000), Price(986), Price(985), Price(983), Price(980),
            Price(1020), Price(951), Price(950), Price(1060)}
Titles  == {"SEC Charges Crypto Firm With Fraud", "CFTC announces settlement with exchange",
            "Attorney General obtains Consent Order", "SEC adopts new custody rule",
            "Lawsuit filed against stablecoin issuer", "Fed keeps rates unchanged"}
CoinLists(n) == {[i \in 1..n |-> [symbol |-> Symbols[i], price |-> f[i]]] : f \in [1..n -> Prices]}
NewsLists(n) == {[i \in 1..n |-> [source |-> "SEC", title |-> f[i]]] : f \in [1..n -> Titles]}

\* lists long enough for slice(0, 50) to cut: within MaxItems of 50
\* stablecoins, whose prices repeat a pattern of two, and up to MaxItems news
\* items, whose titles repeat a pattern of two
LongPrices == {NullPrice, Price(1000), Price(983), Price(950)}
LongCoinLists ==
  {[i \in 1..n |-> [symbol |-> "COIN" \o ToString(i), price |-> f[1 + (i % 2)]]] :
     n \in (AlertsCap - MaxItems)..(AlertsCap + MaxItems), f \in [1..2 -> LongPrices]}
LongNewsLists ==
  {[i \in 1..m |-> [source |-> "SEC", title |-> f[1 + (i % 2)]]] :
     m \in 0..MaxItems, f \in [1..2 -> Titles]}

\* ------------------------------------------------------------------- sinks
(***************************************************************************)
(* pool is set when DATABASE_URL is, and slackNotify posts when            *)
(* SLACK_WEBHOOK_URL is set.  rows is the table alert_events in insertion  *)
(* order, posts the messages sent to the webhook.                          *)
(***************************************************************************)
NoSinks == [pool |-> FALSE, webhook |-> FALSE, rows |-> << >>, posts |-> << >>]

\* alert() that inserts without looking at pool
alert_always(sink, event) == [sink EXCEPT !.rows = Append(@, event)]
\* async function alert(event) { if (!pool) return; await pool.query("insert ...") }
alert(sink, event) ==
  IF ~sink.pool THEN sink ELSE [sink EXCEPT !.rows = Append(@, event)]

\* async function slackNotify(text) { if (!url) return; ... fetch(url, POST) }
slackNotify(sink, text) ==
  IF ~sink.webhook THEN sink ELSE [sink EXCEPT !.posts = Append(@, text)]

\* `await alert(...)` for each event in turn
RECURSIVE alertEach(_, _)
alertEach(sink, events) ==
  IF Len(events) = 0 THEN sink
  ELSE alertEach(alert(sink, events[1]), SubSeq(events, 2, Len(events)))

\* GET /api/alerts: buildAlerts on the cached stablecoins and news
BuildAlerts(stablecoins, news) ==
  /\ alertSt.op = "none"
  /\ alertSt' = [op |-> "alerts", stablecoins |-> stablecoins, news |-> news,
                 alerts |-> buildAlerts(stablecoins, news)]
  /\ UNCHANGED <<clock, cache, memory, prewarm, call, nextInv, lastOk, memoryInv,
               fetchSt, statusTimes, sweep, scoreSt, sinkSt, prodSt, registry>>

\* one run of the depeg monitor on the data of /api/prices: every event is
\* handed to alert()
DepegSweep(d) ==
  /\ Len(sinkSt.rows) < MaxRows
  /\ LET events == depegMonitor(d)
     IN /\ alertSt' = [op |-> "monitor", d |-> d, events |-> events]
        /\ sinkSt' = alertEach(sinkSt, events)
  /\ UNCHANGED <<clock, cache, memory, prewarm, call, nextInv, lastOk, memoryInv,
               fetchSt, statusTimes, sweep, scoreSt, prodSt, registry>>

\* the first run of the depeg monitor
DepegMonitor(d) == alertSt.op = "none" /\ DepegSweep(d)

\* GET /api/alerts of v1.4: buildAlerts, then the first alert of severity
\* high goes to slackNotify
AlertsRequestV14(stablecoins, news) ==
  /\ Len(sinkSt.posts) < MaxRows
  /\ LET data == buildAlerts(stablecoins, news)
         high == SelectSeq(data, LAMBDA a : a.severity = "high")
     IN /\ alertSt' = [op |-> "alerts", stablecoins |-> stablecoins, news |-> news,
                       alerts |-> data]
        /\ sinkSt' = IF Len(high) = 0 THEN sinkSt
                     ELSE slackNotify(sinkSt, <<toUpperCase(high[1].type), high[1].message>>)
  /\ UNCHANGED <<clock, cache, memory, prewarm, call, nextInv, lastOk, memoryInv,
               fetchSt, statusTimes, sweep, scoreSt, prodSt, registry>>

\* -------------------------------------- GET /api/prices, the stale monitor
\* GET /api/prices up to the producer's first await: withCache("prices",
\* 60_000, producer); when the entry is fresh the handler goes on at once to
\* statusTimes.prices = Date.now(); res.json(...)
PricesRequest(c) ==
  /\ call[c].pc = "idle"
  /\ LET entry == cache["prices"]
         base  == [IdleCall EXCEPT !.route = "prices", !.key = "prices",
                                   !.ttl = TTL_prices, !.entry = entry, !.t0 = clock]
     IN IF IsFresh(entry, clock, TTL_prices)
        THEN /\ call' = [call EXCEPT ![c] =
                   [base EXCEPT !.pc = "done", !.out = "return", !.res = entry.v]]
             /\ statusTimes' = [statusTimes EXCEPT !.prices = DateNow]
             /\ UNCHANGED nextInv
        ELSE /\ nextInv < MaxInv
             /\ nextInv' = nextInv + 1
             /\ call' = [call EXCEPT ![c] =
                   [base EXCEPT !.pc = "await", !.prod = "pending", !.inv = nextInv + 1]]
             /\ UNCHANGED statusTimes
  /\ UNCHANGED <<clock, cache, memory, prewarm, lastOk, memoryInv, fetchSt,
               sweep, scoreSt, alertSt, sinkSt, prodSt, registry>>

\* the producer (llama(), or cgFallback() inside it) fulfils: withCache stores
\* and returns the value, the handler sets statusTimes.prices and responds
PricesProduced(c) ==
  /\ call[c].pc = "await" /\ call[c].route = "prices"
  /\ LET v == call[c].inv
     IN /\ cache' = CacheSet(cache, "prices", v, clock)
        /\ lastOk' = [lastOk EXCEPT !["prices"] = [has |-> TRUE, v |-> v, t |-> clock]]
        /\ call' = [call EXCEPT ![c] =
              [@ EXCEPT !.pc = "done", !.prod = "ok", !.out = "return", !.res = v]]
  /\ statusTimes' = [statusTimes EXCEPT !.prices = DateNow]
  /\ UNCHANGED <<clock, memory, prewarm, nextInv, memoryInv, fetchSt,
               sweep, scoreSt, alertSt, sinkSt, prodSt, registry>>

\* the producer rejects: withCache returns the entry it read, if any, and the
\* handler goes on to statusTimes.prices = Date.now(); otherwise withCache
\* throws and the handler's catch block awaits cgFallback()
PricesProducerFailed(c) ==
  /\ call[c].pc = "await" /\ call[c].route = "prices"
  /\ LET r == OnError(call[c].entry, call[c].inv)
     IN IF r.out = "return"
        THEN /\ call' = [call EXCEPT ![c] =
                   [@ EXCEPT !.pc = "done", !.prod = "fail", !.out = "return", !.res = r.res]]
             /\ statusTimes' = [statusTimes EXCEPT !.prices = DateNow]
        ELSE /\ call' = [call EXCEPT ![c] =
                   [@ EXCEPT !.pc = "fallback", !.prod = "fail", !.err = r.err]]
             /\ UNCHANGED statusTimes
  /\ UNCHANGED <<clock, cache, memory, prewarm, nextInv, lastOk, memoryInv, fetchSt,
               sweep, scoreSt, alertSt, sinkSt, prodSt, registry>>

\* a handler that keeps what its own cgFallback() call returned
PricesFallbackOk_stores(c) ==
  /\ call[c].pc = "fallback"
  /\ call' = [call EXCEPT ![c] =
        [@ EXCEPT !.pc = "done", !.out = "return", !.res = call[c].inv, !.err = 0]]
  /\ statusTimes' = [statusTimes EXCEPT !.prices = DateNow]
  /\ cache' = CacheSet(cache, "prices", call[c].inv, clock)
  /\ UNCHANGED <<clock, memory, prewarm, nextInv, lastOk, memoryInv, fetchSt,
               sweep, scoreSt, alertSt, sinkSt, prodSt, registry>>

\* the handler's own cgFallback() fulfils: statusTimes.prices = Date.now();
\* res.json(...); nothing is stored.  The data fetched for this request is
\* written with the request's invocation number.
PricesFallbackOk(c) ==
  /\ call[c].pc = "fallback"
  /\ call' = [call EXCEPT ![c] =
        [@ EXCEPT !.pc = "done", !.out = "return", !.res = call[c].inv, !.err = 0]]
  /\ statusTimes' = [statusTimes EXCEPT !.prices = DateNow]
  /\ UNCHANGED <<clock, cache, memory, prewarm, nextInv, lastOk, memoryInv, fetchSt,
               sweep, scoreSt, alertSt, sinkSt, prodSt, registry>>

\* cgFallback() rejects: res.status(502)
PricesFallbackFail(c) ==
  /\ call[c].pc = "fallback"
  /\ call' = [call EXCEPT ![c] = [@ EXCEPT !.pc = "done", !.out = "throw"]]
  /\ UNCHANGED <<clock, cache, memory, prewarm, nextInv, lastOk, memoryInv, fetchSt,
               statusTimes, sweep, scoreSt, alertSt, sinkSt, prodSt, registry>>

PricesRespond(c) == call[c].route = "prices" /\ Respond(c)

\* the stale monitor: const tooOld = (t, ms) => (Date.now() - t) > ms
Feeds == {"yields", "prices"}
StaleAfter == [yields |-> StaleYields, prices |-> StalePrices]
tooOld_skipUnset(t, ms) == t # 0 /\ (DateNow - t) > ms
tooOld(t, ms) == (DateNow - t) > ms

\* the events of one run of the stale monitor: yields first, then prices
StaleEvents(stale) ==
  LET feeds == SelectSeq(<<"yields", "prices">>, LAMBDA f : f \in stale)
  IN [i \in 1..Len(feeds) |->
        [type |-> "stale", entity_type |-> "system", entity_key |-> feeds[i],
         severity |-> "warn"]]

\* one run of the stale monitor: alert({type: "stale", entity_key: f}) for
\* each feed that is too old; seq tells one run from the next
StaleSweep ==
  /\ Len(sinkSt.rows) < MaxRows
  /\ LET stale == {f \in Feeds : tooOld(statusTimes[f], StaleAfter[f])}
     IN /\ sweep' = [seq |-> 1 - sweep.seq, stale |-> stale]
        /\ sinkSt' = alertEach(sinkSt, StaleEvents(stale))
  /\ UNCHANGED <<clock, cache, memory, prewarm, call, nextInv, lastOk, memoryInv,
               fetchSt, statusTimes, scoreSt, alertSt, prodSt, registry>>

\* --------------------------------------------- producers of the v2 routes
\* no producer is running
IdleProd == [op |-> "none"]

\* list.sort((a, b) => key(b) - key(a)): descending, equal keys keep their order
sortDesc(list, key(_)) ==
  LET n == Len(list)
      pos(i) == 1 + Cardinality({j \in 1..n : \/ key(list[j]) > key(list[i])
                                              \/ key(list[j]) = key(list[i]) /\ j < i})
  IN [p \in 1..n |-> list[CHOOSE i \in 1..n : pos(i) = p]]

\* the symbols of the CG table of GET /api/prices
CG == {"USDT", "USDC", "DAI"}

\* what coins.llama.fi holds under one key: nothing, or an object whose price
\* and confidence are numbers or not
LlamaEntries ==
  {[present |-> FALSE, price |-> NullPrice, confidence |-> NullPrice],
   [present |-> TRUE, price |-> Price(1000), confidence |-> Price(990)],
   [present |-> TRUE, price |-> Price(998), confidence |-> NullPrice],
   [present |-> TRUE, price |-> NullPrice, confidence |-> Price(990)]}
\* what api.coingecko.com holds under one id: nothing, or an object with usd
CgEntries ==
  {[present |-> FALSE, usd |-> NullPrice],
   [present |-> TRUE, usd |-> Price(1001)],
   [present |-> TRUE, usd |-> Price(999)],
   [present |-> TRUE, usd |-> NullPrice]}

\* llama(): data[sym] = { price: number or null, confidence: number or null }
llama(coins) ==
  [sym \in CG |->
     LET v == coins[sym]
     IN [price      |-> IF v.present /\ v.price.isNumber THEN v.price ELSE NullPrice,
         confidence |-> IF v.present /\ v.confidence.isNumber THEN v.confidence ELSE NullPrice]]

\* cgFallback(): data[sym] = { price: number or null, confidence: null }
cgFallback(out) ==
  [sym \in CG |->
     [price      |-> IF out[sym].present /\ out[sym].usd.isNumber THEN out[sym].usd ELSE NullPrice,
      confidence |-> NullPrice]]

allNull_any(primary) == \E sym \in DOMAIN primary : ~primary[sym].price.isNumber

\* Object.values(primary).every(v => v.price == null)
allNull(primary) == \A sym \in DOMAIN primary : ~primary[sym].price.isNumber

\* withCache calls the producer, which awaits llama()
PricesProducer ==
  /\ prodSt.op = "none"
  /\ prodSt' = [op |-> "prices", pc |-> "llama", queried |-> <<"llama">>]
  /\ UNCHANGED <<clock, cache, memory, prewarm, call, nextInv, lastOk, memoryInv, fetchSt,
               statusTimes, sweep, scoreSt, alertSt, sinkSt, registry>>

\* llama() fulfils: return primary, or await cgFallback() when allNull
LlamaReturns(coins) ==
  /\ prodSt.op = "prices" /\ prodSt.pc = "llama"
  /\ LET primary == llama(coins)
     IN prodSt' = IF allNull(primary)
                  THEN [op |-> "prices", pc |-> "cgFallback",
                        queried |-> Append(prodSt.queried, "coingecko"), primary |-> primary]
                  ELSE [op |-> "prices", pc |-> "returned", queried |-> prodSt.queried,
                        primary |-> primary, result |-> primary]
  /\ UNCHANGED <<clock, cache, memory, prewarm, call, nextInv, lastOk, memoryInv, fetchSt,
               statusTimes, sweep, scoreSt, alertSt, sinkSt, registry>>

\* cgFallback() fulfils inside the producer: its mapping is the result
CgFallbackReturns(out) ==
  /\ prodSt.op = "prices" /\ prodSt.pc = "cgFallback"
  /\ prodSt' = [op |-> "prices", pc |-> "returned", queried |-> prodSt.queried,
                primary |-> prodSt.primary, secondary |-> cgFallback(out),
                result |-> cgFallback(out)]
  /\ UNCHANGED <<clock, cache, memory, prewarm, call, nextInv, lastOk, memoryInv, fetchSt,
               statusTimes, sweep, scoreSt, alertSt, sinkSt, registry>>

\* fetchWithRetry or r.json() rejects in llama() or in cgFallback(): the
\* producer rejects
PriceSourceThrows ==
  /\ prodSt.op = "prices" /\ prodSt.pc \in {"llama", "cgFallback"}
  /\ prodSt' = [op |-> "prices", pc |-> "thrown", queried |-> prodSt.queried]
  /\ UNCHANGED <<clock, cache, memory, prewarm, call, nextInv, lastOk, memoryInv, fetchSt,
               statusTimes, sweep, scoreSt, alertSt, sinkSt, registry>>

\* the call has returned or thrown and its caller has taken the outcome
ProducerSettled ==
  /\ prodSt.op # "none" /\ prodSt.pc \in {"returned", "thrown"}
  /\ prodSt' = IdleProd
  /\ UNCHANGED <<clock, cache, memory, prewarm, call, nextInv, lastOk, memoryInv, fetchSt,
               statusTimes, sweep, scoreSt, alertSt, sinkSt, registry>>

\* ---------------------------------------------- getStablecoinSeriesForChain
\* CHAIN_ALIASES[chain] || []; a name found on Object.prototype is neither
\* absent nor an array
ProtoNames == {"constructor"}
CHAIN_ALIASES(chain) ==
  IF chain = "Ethereum" THEN <<"Ethereum">>
  ELSE IF chain = "Tron" THEN <<"Tron">>
  ELSE IF chain = "XRPL" THEN <<"XRPL", "XRP Ledger", "Ripple">>
  ELSE << >>

\* a.filter((v, i, a) => a.indexOf(v) === i)
dedup(a) == SelectSeq([i \in 1..Len(a) |-> [v |-> a[i], first |-> \A j \in 1..(i - 1) : a[j] # a[i]]],
                      LAMBDA e : e.first)
candidatesOf(chain) ==
  LET kept == dedup(<<chain>> \o CHAIN_ALIASES(chain))
  IN [i \in 1..Len(kept) |-> kept[i].v]

\* one row of stablecoincharts: date and totalCirculatingUSD.peggedUSD, each a
\* number or absent
ChartRows ==
  {[date |-> Price(1700), peggedUSD |-> Price(5000)],
   [date |-> Price(1701), peggedUSD |-> Price(0)],
   [date |-> NullPrice,   peggedUSD |-> Price(7000)],
   [date |-> Price(1702), peggedUSD |-> NullPrice]}

\* arr.map(row => ({ t: (row.date * 1000) || null, circulatingUSD: ... ?? null }))
\*    .filter(p => p.t && (p.circulatingUSD != null))
seriesOf(arr) ==
  LET pts == [i \in 1..Len(arr) |->
                [t |-> IF arr[i].date.isNumber /\ arr[i].date.v # 0
                       THEN Price(arr[i].date.v * 1000) ELSE NullPrice,
                 circulatingUSD |-> arr[i].peggedUSD]]
  IN SelectSeq(pts, LAMBDA p : p.t.isNumber /\ p.circulatingUSD.isNumber)

\* what one candidate's request ends in: fetchWithRetry(url, {}, 2) or r.json()
\* rejects, or the body parsed is not an array, or it is the array arr
Rejected    == [kind |-> "rejected", arr |-> << >>]
NotAnArray  == [kind |-> "notArray", arr |-> << >>]
ArrayOf(arr) == [kind |-> "array", arr |-> arr]

\* Array.isArray(arr) && arr.length
usable(answer) == answer.kind = "array" /\ Len(answer.arr) > 0

\* the call starts: the candidates are computed and the first one is requested;
\* spreading a value that is not iterable throws before any request
SeriesStart(chain) ==
  /\ prodSt.op = "none"
  /\ prodSt' = IF chain \in ProtoNames
                THEN [op |-> "series", pc |-> "thrown", chain |-> chain,
                      queried |-> << >>, answers |-> << >>]
                ELSE [op |-> "series", pc |-> "awaiting", chain |-> chain,
                      queried |-> <<candidatesOf(chain)[1]>>, answers |-> << >>]
  /\ UNCHANGED <<clock, cache, memory, prewarm, call, nextInv, lastOk, memoryInv, fetchSt,
               statusTimes, sweep, scoreSt, alertSt, sinkSt, registry>>

\* the request of the current candidate ends: return the series, or go on to
\* the next candidate, or throw new Error("no series") after the last one
CandidateAnswers(answer) ==
  /\ prodSt.op = "series" /\ prodSt.pc = "awaiting"
  /\ LET candidates == candidatesOf(prodSt.chain)
         n == Len(prodSt.queried)
         answers == Append(prodSt.answers, answer)
     IN prodSt' =
          IF usable(answer)
          THEN [op |-> "series", pc |-> "returned", chain |-> prodSt.chain,
                queried |-> prodSt.queried, answers |-> answers, result |-> seriesOf(answer.arr)]
          ELSE IF n < Len(candidates)
          THEN [op |-> "series", pc |-> "awaiting", chain |-> prodSt.chain,
                queried |-> Append(prodSt.queried, candidates[n + 1]), answers |-> answers]
          ELSE [op |-> "series", pc |-> "thrown", chain |-> prodSt.chain,
                queried |-> prodSt.queried, answers |-> answers]
  /\ UNCHANGED <<clock, cache, memory, prewarm, call, nextInv, lastOk, memoryInv, fetchSt,
               statusTimes, sweep, scoreSt, alertSt, sinkSt, registry>>

\* ------------------------------------------------ GET /api/news (v2) producer
\* .slice(0, 20)
NewsCap == 20
NewsFeeds == <<"https://www.federalreserve.gov/feeds/press_all.xml", "https://data.bis.org/feed.xml">>
\* new URL(f).hostname
hostname(f) == IF f = NewsFeeds[1] THEN "www.federalreserve.gov" ELSE "data.bis.org"

\* it.isoDate || it.pubDate || null of one parsed item: an ISO date (the parser
\* sets isoDate when pubDate parses), the pubDate text as it came when it does
\* not parse, or null
IsoDate(t) == [kind |-> "iso", t |-> t]
RawDate    == [kind |-> "raw", t |-> 0]
NoDate     == [kind |-> "null", t |-> 0]

\* new Date(published || 0): a time value, or NaN for a text that does not parse
DateOf(published) ==
  IF published.kind = "iso" THEN Price(published.t)
  ELSE IF published.kind = "null" THEN Price(0)
  ELSE NullPrice

\* for (const it of (parsed.items || [])) acc.push({ source, title, link, published })
pushItems(acc, f, parsed) ==
  acc \o [i \in 1..Len(parsed.items) |->
            [source    |-> IF parsed.title # "" THEN parsed.title ELSE hostname(f),
             title     |-> parsed.items[i].title,
             published |-> parsed.items[i].published]]

\* every reordering of list
Reorderings(list) ==
  {[i \in 1..Len(list) |-> list[p[i]]] :
     p \in {q \in [1..Len(list) -> 1..Len(list)] : \A i, j \in 1..Len(list) : q[i] = q[j] => i = j}}

\* acc.sort((a, b) => new Date(b.published || 0) - new Date(a.published || 0)):
\* descending and stable when every difference is a number; with a NaN among
\* the differences the comparator is not consistent and the order is
\* implementation-defined
sortByPublished(acc) ==
  LET key(it) == DateOf(it.published).v
  IN IF \A i \in 1..Len(acc) : DateOf(acc[i].published).isNumber
     THEN {sortDesc(acc, key)}
     ELSE Reorderings(acc)

slice(list, n) == SubSeq(list, 1, MathMin(n, Len(list)))

\* the merged list holds a date text that does not parse; the reorderings of
\* such a list are enumerated for lists of up to MaxShort + 1 items
HasRaw(items) == \E i \in 1..Len(items) : items[i].published = RawDate

\* withCache calls the producer, which requests the first feed
NewsProducer ==
  /\ prodSt.op = "none"
  /\ prodSt' = [op |-> "news", pc |-> "awaiting", feed |-> 1, acc |-> << >>, failed |-> {}]
  /\ UNCHANGED <<clock, cache, memory, prewarm, call, nextInv, lastOk, memoryInv, fetchSt,
               statusTimes, sweep, scoreSt, alertSt, sinkSt, registry>>

\* the current feed was fetched and parsed, or fetchWithRetry, text() or
\* parseString threw and the catch block swallowed it; after the last feed the
\* producer returns acc.sort(...).slice(0, 20)
FeedAnswers(answer) ==
  /\ prodSt.op = "news" /\ prodSt.pc = "awaiting"
  /\ LET f      == NewsFeeds[prodSt.feed]
         acc    == IF answer.ok THEN pushItems(prodSt.acc, f, answer.parsed) ELSE prodSt.acc
         failed == IF answer.ok THEN prodSt.failed ELSE prodSt.failed \cup {f}
     IN /\ HasRaw(acc) => Len(acc) <= MaxShort + 1
        /\ IF prodSt.feed < Len(NewsFeeds)
           THEN prodSt' = [op |-> "news", pc |-> "awaiting", feed |-> prodSt.feed + 1,
                           acc |-> acc, failed |-> failed]
           ELSE \E sorted \in sortByPublished(acc) :
                  prodSt' = [op |-> "news", pc |-> "returned", feed |-> prodSt.feed,
                             acc |-> acc, failed |-> failed, result |-> slice(sorted, NewsCap)]
  /\ UNCHANGED <<clock, cache, memory, prewarm, call, nextInv, lastOk, memoryInv, fetchSt,
               statusTimes, sweep, scoreSt, alertSt, sinkSt, registry>>

\* ---------------------------------------------- GET /api/news (v2) handler
\* the handler up to the producer's first await: withCache("news:fed+bis",
\* 30*60_000, producer); a fresh entry is answered at once.  The value cached
\* under this key is the list the producer returned.
NewsRequest(c) ==
  /\ call[c].pc = "idle" /\ prodSt.op = "none"
  /\ LET entry == cache[NewsKey]
         base  == [IdleCall EXCEPT !.route = "news", !.key = NewsKey, !.ttl = TTL_news,
                                   !.entry = entry, !.t0 = clock]
     IN IF IsFresh(entry, clock, TTL_news)
        THEN /\ call' = [call EXCEPT ![c] =
                   [base EXCEPT !.pc = "done", !.out = "return", !.res = entry.v]]
             /\ statusTimes' = [statusTimes EXCEPT !.news = DateNow]
             /\ UNCHANGED <<nextInv, prodSt>>
        ELSE /\ nextInv < MaxInv
             /\ nextInv' = nextInv + 1
             /\ call' = [call EXCEPT ![c] =
                   [base EXCEPT !.pc = "await", !.prod = "pending", !.inv = nextInv + 1]]
             /\ prodSt' = [op |-> "news", pc |-> "awaiting", feed |-> 1, acc |-> << >>,
                           failed |-> {}]
             /\ UNCHANGED statusTimes
  /\ UNCHANGED <<clock, cache, memory, prewarm, lastOk, memoryInv, fetchSt,
               sweep, scoreSt, alertSt, sinkSt, registry>>

\* a handler that keeps the list it had when the producer came back empty
NewsStored_keepWhenEmpty(c) ==
  /\ call[c].pc = "await" /\ call[c].route = "news"
  /\ prodSt.op = "news" /\ prodSt.pc = "returned"
  /\ LET keep == prodSt.result = << >> /\ call[c].entry.has
         v    == IF keep THEN call[c].entry.v ELSE prodSt.result
     IN /\ cache' = IF keep THEN cache ELSE CacheSet(cache, NewsKey, v, clock)
        /\ call' = [call EXCEPT ![c] =
              [@ EXCEPT !.pc = "done", !.prod = "ok", !.out = "return", !.res = v]]
  /\ statusTimes' = [statusTimes EXCEPT !.news = DateNow]
  /\ prodSt' = IdleProd
  /\ UNCHANGED <<clock, memory, prewarm, nextInv, lastOk, memoryInv, fetchSt,
               sweep, scoreSt, alertSt, sinkSt, registry>>

\* the producer has returned its list: cache.set(key, { v, t: now() }), then
\* statusTimes.news = Date.now(); res.json(...).  The producer has no path
\* that throws, so the catch blocks of withCache and of the handler are not
\* entered.
NewsStored(c) ==
  /\ call[c].pc = "await" /\ call[c].route = "news"
  /\ prodSt.op = "news" /\ prodSt.pc = "returned"
  /\ LET v == prodSt.result
     IN /\ cache' = CacheSet(cache, NewsKey, v, clock)
        /\ call' = [call EXCEPT ![c] =
              [@ EXCEPT !.pc = "done", !.prod = "ok", !.out = "return", !.res = v]]
  /\ statusTimes' = [statusTimes EXCEPT !.news = DateNow]
  /\ prodSt' = IdleProd
  /\ UNCHANGED <<clock, memory, prewarm, nextInv, lastOk, memoryInv, fetchSt,
               sweep, scoreSt, alertSt, sinkSt, registry>>

NewsRespond(c) == call[c].route = "news" /\ Respond(c)

\* Date.now() advances by d
Elapse(d) ==
  /\ clock + d <= MaxNewsClock
  /\ clock' = clock + d
  /\ UNCHANGED <<cache, memory, prewarm, call, nextInv, lastOk, memoryInv, fetchSt,
               statusTimes, sweep, scoreSt, alertSt, sinkSt, prodSt, registry>>

\* -------------------------------------------------- the static registries
\* records of SEEDED_STABLES, SEEDED_PLATFORMS (v1.x), SC and PLATFORMS (v2);
\* a field a record does not carry has its falsy value
SEEDED_STABLES ==
  <<[symbol |-> "USDC", name |-> "USD Coin", issuer |-> "Circle",
     jurisdiction |-> "US (MSB) / EU EMI", auditor |-> "Grant Thornton",
     model |-> "fiat-backed", genius |-> "yes"],
    [symbol |-> "DAI", name |-> "DAI", issuer |-> "MakerDAO",
     jurisdiction |-> "Decentralized", auditor |-> "Withum",
     model |-> "crypto-collateralized", genius |-> "yes"]>>
SEEDED_PLATFORMS ==
  [cefi |-> <<[name |-> "Coinbase", licenses |-> <<"NY BitLicense", "MSB">>,
               auditor |-> "Deloitte", por |-> "Yes (independent attestations)",
               riskNotes |-> "High regulatory transparency in US", scoreBase |-> 880],
              [name |-> "Binance", licenses |-> <<"Local registrations vary">>,
               auditor |-> "PoR style", por |-> "Partial",
               riskNotes |-> "Regulatory actions/settlements noted", scoreBase |-> 630]>>,
   defi |-> <<[name |-> "Aave", licenses |-> << >>, auditor |-> "", por |-> "N/A",
               riskNotes |-> "Governance & oracle risks", scoreBase |-> 750]>>]
SC ==
  <<[symbol |-> "USDT", name |-> "Tether", issuer |-> "Tether Ltd", model |-> "fiat-backed",
     jurisdiction |-> "BVI/HK (offshore)", auditor |-> "BDO Italia (attest)",
     genius |-> "no", insurance |-> "none"],
    [symbol |-> "USDC", name |-> "USD Coin", issuer |-> "Circle", model |-> "fiat-backed",
     jurisdiction |-> "US (MSB/state MTs)", auditor |-> "Grant Thornton (attest)",
     genius |-> "likely", insurance |-> "reserves at FDIC banks; not token-insured"],
    [symbol |-> "DAI", name |-> "Dai", issuer |-> "MakerDAO", model |-> "crypto-collateralized",
     jurisdiction |-> "decentralized", auditor |-> "on-chain transparency",
     genius |-> "no", insurance |-> "n/a"]>>
PLATFORMS ==
  <<[name |-> "Binance", type |-> "CeFi", region |-> "Global", kyc |-> TRUE, por |-> "partial",
     audit |-> FALSE, license |-> "med", events |-> 2, secAudit |-> TRUE,
     onchain |-> FALSE, audits |-> << >>, formal |-> FALSE, algo |-> FALSE, depeg |-> FALSE],
    [name |-> "Kraken", type |-> "CeFi", region |-> "US", kyc |-> TRUE, por |-> "yes",
     audit |-> TRUE, license |-> "high", events |-> 1, secAudit |-> TRUE,
     onchain |-> FALSE, audits |-> << >>, formal |-> FALSE, algo |-> FALSE, depeg |-> FALSE],
    [name |-> "Aave", type |-> "DeFi", region |-> "On-chain", kyc |-> FALSE, por |-> "",
     audit |-> FALSE, license |-> "", events |-> 0, secAudit |-> FALSE,
     onchain |-> TRUE, audits |-> <<"Trail of Bits", "Certora">>, formal |-> TRUE,
     algo |-> FALSE, depeg |-> FALSE]>>

\* the module-level constants after the module has been loaded
Registry ==
  [SEEDED_STABLES |-> SEEDED_STABLES, SEEDED_PLATFORMS |-> SEEDED_PLATFORMS,
   SC |-> SC, PLATFORMS |-> PLATFORMS]

\* the fields of x, overridden and extended by those of extra
Merge(x, extra) ==
  [f \in DOMAIN x \cup DOMAIN extra |-> IF f \in DOMAIN extra THEN extra[f] ELSE x[f]]

spread_assign(x, extra) == [source |-> Merge(x, extra), made |-> Merge(x, extra)]

\* ({ ...x, ...extra }): a new object is made; source is x after the expression
spread(x, extra) == [source |-> x, made |-> Merge(x, extra)]

\* list.map(x => ({ ...x, ...extra(x) })): the objects of list afterwards, and
\* the new array
mapSpread(list, extra(_)) ==
  [source |-> [i \in 1..Len(list) |-> spread(list[i], extra(list[i])).source],
   made   |-> [i \in 1..Len(list) |-> spread(list[i], extra(list[i])).made]]

\* v1.x buildStablecoinList(): score, price: null and supply: null on copies
BuildStablecoinList ==
  /\ prodSt.op = "none"
  /\ LET extra(sc) == [score |-> scoreStablecoin(sc, 0), price |-> NullPrice, supply |-> NullPrice]
         m == mapSpread(registry.SEEDED_STABLES, extra)
     IN /\ registry' = [registry EXCEPT !.SEEDED_STABLES = m.source]
        /\ prodSt' = [op |-> "registry", pc |-> "returned", fn |-> "buildStablecoinList", result |-> m.made]
  /\ UNCHANGED <<clock, cache, memory, prewarm, call, nextInv, lastOk, memoryInv, fetchSt,
               statusTimes, sweep, scoreSt, alertSt, sinkSt>>

\* v1.x buildPlatforms(): score on copies of the cefi and the defi records
BuildPlatforms ==
  /\ prodSt.op = "none"
  /\ LET extra(p) == [score |-> scorePlatform(p)]
         cefi == mapSpread(registry.SEEDED_PLATFORMS.cefi, extra)
         defi == mapSpread(registry.SEEDED_PLATFORMS.defi, extra)
     IN /\ registry' = [registry EXCEPT
                          !.SEEDED_PLATFORMS = [cefi |-> cefi.source, defi |-> defi.source]]
        /\ prodSt' = [op |-> "registry", pc |-> "returned", fn |-> "buildPlatforms",
                      result |-> [cefi |-> cefi.made, defi |-> defi.made]]
  /\ UNCHANGED <<clock, cache, memory, prewarm, call, nextInv, lastOk, memoryInv, fetchSt,
               statusTimes, sweep, scoreSt, alertSt, sinkSt>>

\* v2 GET /api/platforms: complianceScore on copies, the filters, the sort
PlatformsRequest(type, region, minScore) ==
  /\ prodSt.op = "none"
  /\ LET extra(p) == [complianceScore |-> platformScore(p)]
         m  == mapSpread(registry.PLATFORMS, extra)
         l1 == IF type \in {"CeFi", "DeFi"}
               THEN SelectSeq(m.made, LAMBDA p : p.type = type) ELSE m.made
         l2 == IF region # ""
               THEN SelectSeq(l1, LAMBDA p : includes(toLowerCase(p.region), region)) ELSE l1
         l3 == IF minScore > 0
               THEN SelectSeq(l2, LAMBDA p : p.complianceScore >= minScore) ELSE l2
         key(p) == p.complianceScore
     IN /\ registry' = [registry EXCEPT !.PLATFORMS = m.source]
        /\ prodSt' = [op |-> "registry", pc |-> "returned", fn |-> "platforms",
                      query |-> <<type, region, minScore>>, result |-> sortDesc(l3, key)]
  /\ UNCHANGED <<clock, cache, memory, prewarm, call, nextInv, lastOk, memoryInv, fetchSt,
               statusTimes, sweep, scoreSt, alertSt, sinkSt>>

\* prices[x.symbol]?.price ?? null
PriceOf(prices, symbol) ==
  IF symbol \in DOMAIN prices THEN prices[symbol].price ELSE NullPrice

\* v2 GET /api/stablecoins: price, pegDev (hundredths of a percent) and
\* complianceScore on copies, the filters, the sort
StablecoinsRequest(prices, q, model, genius, insured, minScore) ==
  /\ prodSt.op = "none"
  /\ LET truthy(price) == price.isNumber /\ price.v # 0
         extra(x) ==
           LET price == PriceOf(prices, x.symbol)
               depeg == IF truthy(price) /\ MathAbs(1000 - price.v) > 20 THEN 1 ELSE 0
           IN [price |-> price,
               pegDev |-> IF truthy(price) THEN Price((price.v - 1000) * 10) ELSE NullPrice,
               complianceScore |-> scoreStablecoinV2(x, depeg)]
         m  == mapSpread(registry.SC, extra)
         l1 == IF q # ""
               THEN SelectSeq(m.made, LAMBDA x : includes(toLowerCase(x.symbol \o x.name \o x.issuer), q))
               ELSE m.made
         l2 == IF model # "all"
               THEN SelectSeq(l1, LAMBDA x : toLowerCase(x.model) = toLowerCase(model)) ELSE l1
         l3 == IF genius # "all"
               THEN SelectSeq(l2, LAMBDA x : toLowerCase(x.genius) = toLowerCase(genius)) ELSE l2
         l4 == IF insured = "yes"
               THEN SelectSeq(l3, LAMBDA x : includes(toLowerCase(x.insurance), "fdic"))
               ELSE IF insured = "no"
               THEN SelectSeq(l3, LAMBDA x : ~includes(toLowerCase(x.insurance), "fdic"))
               ELSE l3
         l5 == IF minScore > 0
               THEN SelectSeq(l4, LAMBDA x : x.complianceScore >= minScore) ELSE l4
         key(x) == x.complianceScore
     IN /\ registry' = [registry EXCEPT !.SC = m.source]
        /\ prodSt' = [op |-> "registry", pc |-> "returned", fn |-> "stablecoins",
                      query |-> <<prices, q, model, genius, insured, minScore>>,
                      result |-> sortDesc(l5, key)]
  /\ UNCHANGED <<clock, cache, memory, prewarm, call, nextInv, lastOk, memoryInv, fetchSt,
               statusTimes, sweep, scoreSt, alertSt, sinkSt>>

\* ------------------------------------- v1.x GET /api/stablecoins/:symbol
\* data.find(s => (s.symbol || "").toUpperCase() === sym): the index of the
\* first match, 0 for undefined
findStable(data, sym) ==
  LET hits == {i \in 1..Len(data) : toUpperCase(data[i].symbol) = sym}
  IN IF hits = {} THEN 0 ELSE CHOOSE i \in hits : \A j \in hits : i <= j

lookupStep_refreshFirst(found, needsRefresh) ==
  IF needsRefresh THEN "fetch" ELSE IF ~found THEN "not_found" ELSE "respond"

\* if (!found) return res.status(404)...; then the inline check of cache.yields
lookupStep(found, needsRefresh) ==
  IF ~found THEN "not_found" ELSE IF needsRefresh THEN "fetch" ELSE "respond"

\* the handler up to its first await or to its response; cache.stablecoins
\* holds buildStablecoinList() whenever it is read, so it is computed here
StablecoinLookup(c, symbol) ==
  /\ call[c].pc = "idle"
  /\ LET sym   == toUpperCase(symbol)
         extra(sc) == [score |-> scoreStablecoin(sc, 0), price |-> NullPrice, supply |-> NullPrice]
         data  == mapSpread(registry.SEEDED_STABLES, extra).made
         step  == lookupStep(findStable(data, sym) # 0, NeedsRefresh(memory, clock, TTL_yields))
         base  == [IdleCall EXCEPT !.route = "lookup", !.key = "yields", !.ttl = TTL_yields,
                                   !.entry = memory, !.t0 = clock, !.sym = sym]
     IN IF step = "fetch"
        THEN /\ nextInv < MaxInv
             /\ nextInv' = nextInv + 1
             /\ call' = [call EXCEPT ![c] =
                   [base EXCEPT !.pc = "await", !.prod = "pending", !.inv = nextInv + 1]]
        ELSE /\ call' = [call EXCEPT ![c] =
                   [base EXCEPT !.pc = "done",
                                !.out = IF step = "not_found" THEN "not_found" ELSE "return",
                                !.res = IF step = "not_found" THEN 0 ELSE memory.v]]
             /\ UNCHANGED nextInv
  /\ UNCHANGED <<clock, cache, memory, prewarm, lastOk, memoryInv, fetchSt,
               statusTimes, sweep, scoreSt, alertSt, sinkSt, prodSt, registry>>

\* cache.yields = { data: await fetchYieldsFromLlama(), t: Date.now() }; the
\* top pools of the symbol are answered
LookupFetched(c, reply) ==
  /\ call[c].pc = "await" /\ call[c].route = "lookup"
  /\ LET data == FetchYieldsFromLlama(reply, call[c].inv)
     IN /\ memory' = [has |-> TRUE, v |-> data, t |-> clock]
        /\ call' = [call EXCEPT ![c] =
              [@ EXCEPT !.pc = "done", !.prod = reply, !.out = "return", !.res = data]]
  /\ memoryInv' = call[c].inv
  /\ UNCHANGED <<clock, cache, prewarm, nextInv, lastOk, fetchSt,
               statusTimes, sweep, scoreSt, alertSt, sinkSt, prodSt, registry>>

InitProducers == prodSt = IdleProd /\ registry = Registry

\* without DATABASE_URL and SLACK_WEBHOOK_URL, as the repository is set up
Init ==
  /\ InitCache /\ fetchSt = IdleFetch /\ InitStatus /\ InitPure /\ sinkSt = NoSinks
  /\ InitProducers

\* either sink configured or not
InitConfigured ==
  /\ InitCache /\ fetchSt = IdleFetch /\ InitStatus /\ InitPure /\ InitSinks
  /\ InitProducers

\* v2: requests served through withCache
Next ==
  \/ \E c \in Callers, k \in Keys, ttl \in TTLs : WithCache(c, k, ttl)
  \/ \E c \in Callers : FetcherResolve(c)
  \/ \E c \in Callers : FetcherReject(c)
  \/ \E c \in Callers : Respond(c)
  \/ Tick

Spec == Init /\ [][Next]_vars

\* v1.x: requests served by the handlers that test cache.yields inline
NextV1 ==
  \/ \E c \in Callers : YieldsRequest(c)
  \/ \E c \in Callers, reply \in Replies : YieldsFetched(c, reply)
  \/ \E reply \in Replies : PrewarmDone(reply)
  \/ \E c \in Callers : Respond(c)
  \/ Tick

SpecV1 == Init /\ [][NextV1]_vars

\* both generations of the cache side by side (they share no state)
NextAll ==
  \/ \E c \in Callers, k \in Keys, ttl \in TTLs : WithCache(c, k, ttl)
  \/ \E c \in Callers : FetcherResolve(c)
  \/ \E c \in Callers : FetcherReject(c)
  \/ \E c \in Callers : YieldsRequest(c)
  \/ \E c \in Callers, reply \in Replies : YieldsFetched(c, reply)
  \/ \E reply \in Replies : PrewarmDone(reply)
  \/ \E c \in Callers : Respond(c)
  \/ Tick

SpecAll == Init /\ [][NextAll]_vars

\* one fetchWithRetry call at a time, with any arguments and any upstream
NextFetch ==
  \/ \E attempts \in 0..MaxAttempts, backoffMs \in Backoffs : FetchWithRetry(attempts, backoffMs)
  \/ AttemptOk
  \/ \E e \in FetchErrs : AttemptFail(e)
  \/ BackoffElapsed
  \/ FetchSettled

SpecFetch == Init /\ [][NextFetch]_vars

\* the same with the attempt counts no call site passes: zero and negative
AttemptCounts == {0 - 1} \cup (0..MaxAttempts)
NextFetchAny ==
  \/ \E attempts \in AttemptCounts, backoffMs \in Backoffs : FetchWithRetry(attempts, backoffMs)
  \/ AttemptOk
  \/ \E e \in FetchErrs : AttemptFail(e)
  \/ BackoffElapsed
  \/ FetchSettled
SpecFetchAny == Init /\ [][NextFetchAny]_vars

\* v2 yields feed: getAllPools with fetchWithRetry as the producer of
\* withCache, next to fetchWithRetry calls with arbitrary arguments
NextPools ==
  \/ \E c \in Callers : GetAllPools(c)
  \/ AttemptOk
  \/ \E e \in FetchErrs : AttemptFail(e)
  \/ BackoffElapsed
  \/ \E c \in Callers, body \in Bodies : PoolsJson(c, body)
  \/ \E c \in Callers : PoolsThrown(c)
  \/ \E c \in Callers : PoolsRespond(c)
  \/ Tick

SpecPools == Init /\ [][NextPools]_vars

\* every fetch() settles (it carries AbortSignal.timeout), every backoff
\* timer fires, and a settled promise's continuation runs
FairPools ==
  /\ WF_vars(AttemptOk \/ \E e \in FetchErrs : AttemptFail(e))
  /\ WF_vars(BackoffElapsed)
  /\ WF_vars(\E c \in Callers, body \in Bodies : PoolsJson(c, body))
  /\ WF_vars(\E c \in Callers : PoolsThrown(c))

SpecPoolsFair == SpecPools /\ FairPools

\* the scorers, applied to one record
NextScore ==
  \/ \E sc \in Stablecoins, n \in 0..MaxIncidents : ScoreStable(sc, n)
  \/ OneMoreIncident
  \/ \E p \in SeededPlatforms : ScoreSeededPlatform(p)
  \/ \E p \in Platforms : ScorePlatformV2(p)

SpecScore == Init /\ [][NextScore]_vars

\* alert derivation, applied to one input
NextAlerts ==
  \/ \E n \in 0..MaxItems, m \in 0..MaxItems :
       /\ n + m <= MaxItems
       /\ \E stablecoins \in CoinLists(n), news \in NewsLists(m) : BuildAlerts(stablecoins, news)
  \/ \E n \in 0..MaxItems : \E d \in CoinLists(n) : DepegMonitor(d)

SpecAlerts == Init /\ [][NextAlerts]_vars

\* alert derivation on lists that reach the cap
NextAlertsCap ==
  \E stablecoins \in LongCoinLists, news \in LongNewsLists : BuildAlerts(stablecoins, news)

SpecAlertsCap == Init /\ [][NextAlertsCap]_vars

\* the tracked feed timestamps: the prices route, the yields feed, the stale
\* monitor
NextStatus ==
  \/ \E c \in Callers : PricesRequest(c)
  \/ \E c \in Callers : PricesProduced(c)
  \/ \E c \in Callers : PricesProducerFailed(c)
  \/ \E c \in Callers : PricesFallbackOk(c)
  \/ \E c \in Callers : PricesFallbackFail(c)
  \/ \E c \in Callers : PricesRespond(c)
  \/ \E c \in Callers : GetAllPools(c)
  \/ AttemptOk
  \/ \E e \in FetchErrs : AttemptFail(e)
  \/ BackoffElapsed
  \/ \E c \in Callers, body \in Bodies : PoolsJson(c, body)
  \/ \E c \in Callers : PoolsThrown(c)
  \/ \E c \in Callers : PoolsRespond(c)
  \/ StaleSweep
  \/ Tick

SpecStatus == Init /\ [][NextStatus]_vars

\* the prices route alone
NextPrices ==
  \/ \E c \in Callers : PricesRequest(c)
  \/ \E c \in Callers : PricesProduced(c)
  \/ \E c \in Callers : PricesProducerFailed(c)
  \/ \E c \in Callers : PricesFallbackOk(c)
  \/ \E c \in Callers : PricesFallbackFail(c)
  \/ \E c \in Callers : PricesRespond(c)
  \/ Tick
SpecPrices == Init /\ [][NextPrices]_vars

\* the stale monitor of a process started with or without its sinks, next
\* to one request of each client to the prices route or to the yields feed
NextMonitor ==
  \/ \E c \in Callers : PricesRequest(c)
  \/ \E c \in Callers : PricesProduced(c)
  \/ \E c \in Callers : PricesProducerFailed(c)
  \/ \E c \in Callers : PricesFallbackOk(c)
  \/ \E c \in Callers : PricesFallbackFail(c)
  \/ \E c \in Callers : GetAllPools(c)
  \/ AttemptOk
  \/ \E e \in FetchErrs : AttemptFail(e)
  \/ BackoffElapsed
  \/ \E c \in Callers, body \in Bodies : PoolsJson(c, body)
  \/ \E c \in Callers : PoolsThrown(c)
  \/ StaleSweep
  \/ Tick
SpecMonitor == InitConfigured /\ [][NextMonitor]_vars

\* the monitors and the v1.4 alerts request, run again and again on the
\* price of one coin
SinkPrices == {NullPrice, Price(1000), Price(980), Price(940)}
SinkCoins  == {<<[symbol |-> "USDT", price |-> p]>> : p \in SinkPrices}
SinkNews   == {<< >>, <<[source |-> "SEC", title |-> "SEC Charges Crypto Firm With Fraud"]>>}
NextSinks ==
  \/ StaleSweep
  \/ \E d \in SinkCoins : DepegSweep(d)
  \/ \E stablecoins \in SinkCoins, news \in SinkNews : AlertsRequestV14(stablecoins, news)

SpecSinks == InitConfigured /\ [][NextSinks]_vars

\* the prices producer of GET /api/prices, one call at a time
LlamaCoins == [CG -> LlamaEntries]
CgOuts     == [CG -> CgEntries]
NextPriceSources ==
  \/ PricesProducer
  \/ \E coins \in LlamaCoins : LlamaReturns(coins)
  \/ \E out \in CgOuts : CgFallbackReturns(out)
  \/ PriceSourceThrows
  \/ ProducerSettled
SpecPriceSources == Init /\ [][NextPriceSources]_vars

\* the handlers that read the registries
PriceMaps == [{"USDT", "USDC"} -> [price : {NullPrice, Price(1000), Price(970)}]]
                \cup {[s \in {"USDT"} |-> [price |-> Price(1030)]]}
NextRegistry ==
  \/ BuildStablecoinList
  \/ BuildPlatforms
  \/ \E type \in {"All", "CeFi", "DeFi"}, region \in {"", "us"}, minScore \in {0, 800} :
       PlatformsRequest(type, region, minScore)
  \/ \E prices \in PriceMaps, q \in {"", "usd"}, model \in {"all", "Fiat-Backed"},
        genius \in {"all", "likely"}, insured \in {"all", "yes", "no"}, minScore \in {0, 600} :
       StablecoinsRequest(prices, q, model, genius, insured, minScore)
  \/ ProducerSettled
SpecRegistry == Init /\ [][NextRegistry]_vars

\* getStablecoinSeriesForChain, one call at a time
Chains == {"Ethereum", "Tron", "XRPL", "Ripple", "Solana"} \cup ProtoNames
ChartArrays == {<<r>> : r \in ChartRows} \cup {<<r1, r2>> : r1 \in ChartRows, r2 \in ChartRows}
Answers == {Rejected, NotAnArray, ArrayOf(<< >>)} \cup {ArrayOf(arr) : arr \in ChartArrays}
NextSeries ==
  \/ \E chain \in Chains : SeriesStart(chain)
  \/ \E answer \in Answers : CandidateAnswers(answer)
  \/ ProducerSettled
SpecSeries == Init /\ [][NextSeries]_vars

\* the news producer, one call at a time: feeds of up to MaxShort items with
\* any kind of date, and feeds of about half of NewsCap items with ISO dates
NewsDates == {IsoDate(3), IsoDate(5), NoDate, RawDate}
ShortFeeds ==
  {[title |-> t, items |-> [i \in 1..n |-> [title |-> "item " \o ToString(i), published |-> d[i]]]] :
     t \in {"", "BIS"}, n \in 0..MaxShort, d \in [1..MaxShort -> NewsDates]}
LongFeeds ==
  {[title |-> "Press", items |-> [i \in 1..n |-> [title |-> "release " \o ToString(i),
                                                  published |-> d[1 + (i % 2)]]]] :
     n \in ((NewsCap \div 2)..(NewsCap \div 2 + 1)), d \in [1..2 -> {IsoDate(4), IsoDate(6)}]}
NewsAnswers ==
  {[ok |-> FALSE, parsed |-> [title |-> "", items |-> << >>]]}
    \cup {[ok |-> TRUE, parsed |-> p] : p \in ShortFeeds \cup LongFeeds}
NextNews ==
  \/ NewsProducer
  \/ \E answer \in NewsAnswers : FeedAnswers(answer)
  \/ ProducerSettled
SpecNews == Init /\ [][NextNews]_vars

\* the v2 news route: requests, the feeds answering or failing, time passing
\* by five minutes or by the TTL
CachedFeeds ==
  {[title |-> "BIS", items |-> [i \in 1..n |-> [title |-> "item " \o ToString(i),
                                                published |-> IsoDate(3 + i)]]] : n \in 0..1}
CachedAnswers ==
  {[ok |-> FALSE, parsed |-> [title |-> "", items |-> << >>]]}
    \cup {[ok |-> TRUE, parsed |-> p] : p \in CachedFeeds}
NextNewsRoute ==
  \/ \E c \in Callers : NewsRequest(c)
  \/ \E answer \in CachedAnswers : FeedAnswers(answer)
  \/ \E c \in Callers : NewsStored(c)
  \/ \E c \in Callers : NewsRespond(c)
  \/ \E d \in {1, TTL_news} : Elapse(d)
SpecNewsRoute == Init /\ [][NextNewsRoute]_vars

\* v1.x lookups next to prewarm, with registered and unregistered symbols
LookupSymbols == {"usdc", "XYZ"}
NextLookup ==
  \/ \E c \in Callers, symbol \in LookupSymbols : StablecoinLookup(c, symbol)
  \/ \E c \in Callers, reply \in Replies : LookupFetched(c, reply)
  \/ \E reply \in Replies : PrewarmDone(reply)
  \/ \E c \in Callers : Respond(c)
  \/ Tick
SpecLookup == Init /\ [][NextLookup]_vars

\* =============================================================== claims
\* the requests that went through withCache, and the age of the entry each read
ViaWithCache == {c \in Callers : call[c].route = "withCache"}
AgeAtRead(c) == call[c].t0 - call[c].entry.t

\* C1: a withCache call that finds an entry younger than the TTL (age < ttl)
\* returns the cached value and invokes no producer.
C1_FreshEntryServedWithoutProducer ==
  \A c \in ViaWithCache :
    (call[c].entry.has /\ AgeAtRead(c) < call[c].ttl)
      => /\ call[c].pc = "done"
         /\ call[c].out = "return"
         /\ call[c].res = call[c].entry.v
         /\ call[c].inv = 0 /\ call[c].prod = "none"

\* an entry of age 1 read with ttl 2: younger than the TTL, but not brand new
C1_Witness ==
  \E c \in ViaWithCache :
    call[c].entry.has /\ AgeAtRead(c) = 1 /\ call[c].ttl = 2 /\ call[c].pc = "done"

\* C2: when the producer fails and the call had read an entry, the call
\* returns that entry's value and raises nothing.
C2_StaleOnError ==
  \A c \in ViaWithCache :
    (call[c].prod = "fail" /\ call[c].entry.has)
      => /\ call[c].pc = "done"
         /\ call[c].out = "return"
         /\ call[c].res = call[c].entry.v
         /\ call[c].err = 0

\* a refresh of an expired entry has failed
C2_Witness ==
  \E c \in ViaWithCache :
    /\ call[c].prod = "fail" /\ call[c].entry.has
    /\ AgeAtRead(c) >= call[c].ttl
    /\ call[c].out = "return"

\* C3: when the producer fails and the call had read no entry, the call
\* throws the producer's error and the step leaves the cache as it was
\* (no entry is created for the key).
C3_ColdFailurePropagates ==
  [][\A c \in Callers :
       (/\ call[c].pc = "await" /\ call[c].route = "withCache"
        /\ ~call[c].entry.has
        /\ call'[c].prod = "fail")
         => /\ call'[c].pc = "done"
            /\ call'[c].out = "throw"
            /\ call'[c].err = call[c].inv
            /\ cache' = cache]_vars

\* a cold call has thrown and its key still has no entry
C3_Witness ==
  \E c \in ViaWithCache :
    /\ call[c].prod = "fail" /\ ~call[c].entry.has
    /\ call[c].out = "throw" /\ call[c].err = call[c].inv
    /\ ~cache[call[c].key].has

\* C4: the entry of every key is the payload and completion time of the last
\* producer call for that key that completed successfully; a failed call
\* changes nothing, and a key without a successful call has no entry.
C4_EntryIsLastSuccess == \A k \in Keys : cache[k] = lastOk[k]

\* a refresh failed after an earlier one had succeeded, while the other key
\* never had a successful producer call
C4_Witness ==
  \E c \in ViaWithCache :
    /\ call[c].prod = "fail"
    /\ cache[call[c].key].has /\ cache[call[c].key].t > 0
    /\ \E k \in Keys : ~cache[k].has

\* C5: a read that finds no entry, or an entry whose age is at least the TTL
\* (age = TTL included), invokes the producer; for withCache and for the
\* inline check of the v1.x handlers alike.
C5_ExpiredEntryInvokesProducer ==
  \A c \in Callers :
    (call[c].pc # "idle" /\ (~call[c].entry.has \/ AgeAtRead(c) >= call[c].ttl))
      => call[c].inv # 0

\* C6: a step of a withCache call for key k leaves the entry of every other
\* key unchanged, whether the producer succeeded or failed.
C6_OtherKeysUntouched ==
  [][\A c \in Callers :
       (call'[c] # call[c] /\ "withCache" \in {call[c].route, call'[c].route})
         => LET k == IF call[c].pc = "idle" THEN call'[c].key ELSE call[c].key
            IN \A k2 \in Keys \ {k} : cache'[k2] = cache[k2]]_vars

\* a refresh has just stored a value while the other key holds another one
C6_Witness ==
  \E c \in ViaWithCache :
    /\ call[c].prod = "ok"
    /\ cache[call[c].key].v = call[c].res
    /\ \E k2 \in Keys \ {call[c].key} : cache[k2].has /\ cache[k2].v # call[c].res

\* C7: at most one producer invocation per key is in flight at any moment.
C7_SingleFlightPerKey ==
  \A k \in Keys :
    Cardinality({c \in ViaWithCache : call[c].pc = "await" /\ call[c].key = k}) <= 1

\* C8: the value of a producer invocation that started later is never
\* overwritten by the value of one that started earlier (invocations are
\* numbered in the order they start, and a stored value carries that number).
C8_NoStaleOverwrite ==
  [][/\ \A k \in Keys : cache[k].has => cache'[k].v >= cache[k].v
     /\ memoryInv' >= memoryInv]_vars

\* C9: fetchWithRetry issues at most `attempts` requests, and none after the
\* first request that came back ok.
C9_BoundedRequests ==
  /\ fetchSt.requests <= fetchSt.attempts
  /\ \A j \in 1..Len(fetchSt.log) :
       fetchSt.log[j] = "ok" => (j = Len(fetchSt.log) /\ fetchSt.requests = j)

\* a call with budget left returned on its second request
C9_Witness ==
  /\ fetchSt.pc = "returned"
  /\ fetchSt.attempts = 3 /\ fetchSt.requests = 2
  /\ fetchSt.log[1] # "ok" /\ fetchSt.log[2] = "ok"

\* C10: when all `attempts` requests fail, the call throws the error of the
\* last attempt.
C10_ThrowsLastError ==
  (fetchSt.pc = "thrown" /\ fetchSt.attempts >= 1)
    => /\ Len(fetchSt.log) = fetchSt.attempts
       /\ \A j \in 1..Len(fetchSt.log) : fetchSt.log[j] # "ok"
       /\ fetchSt.err = fetchSt.log[fetchSt.attempts]

\* three attempts failed with different errors, the last one was thrown
C10_Witness ==
  /\ fetchSt.pc = "thrown" /\ fetchSt.attempts = 3
  /\ fetchSt.log[1] # fetchSt.log[3] /\ fetchSt.log[2] # fetchSt.log[3]
  /\ fetchSt.err = fetchSt.log[3]

\* C11: within one fetchWithRetry call attempt n+1 is issued only after
\* attempt n has ended in failure and the backoff timer of backoffMs * n has
\* run out; at most one request of the call is outstanding at any time.
C11_SequentialAttempts ==
  [][/\ fetchSt'.requests - Len(fetchSt'.log) \in {0, 1}
     /\ (fetchSt.pc # "idle" /\ fetchSt'.requests # fetchSt.requests /\ fetchSt'.pc # "idle")
          => LET n == fetchSt.requests
             IN /\ fetchSt'.requests = n + 1
                /\ fetchSt.pc = "backoff"
                /\ Len(fetchSt.log) = n /\ fetchSt.log[n] # "ok"
                /\ fetchSt'.waited = fetchSt.waited + fetchSt.backoffMs * n]_vars

\* the third request of a call with backoffMs = 2 is outstanding: the call
\* has slept 2 * 1 + 2 * 2
C11_Witness ==
  /\ fetchSt.pc = "request" /\ fetchSt.requests = 3
  /\ fetchSt.backoffMs = 2 /\ fetchSt.waited = 6

\* C12: under the fairness of FairPools every fetchWithRetry call that has a
\* request or a backoff timer outstanding eventually returns or throws, and
\* every getAllPools request waiting for its producer eventually gets its
\* result or its exception.
C12_Terminates ==
  /\ (fetchSt.pc \in {"request", "backoff"}) ~> (fetchSt.pc \in {"returned", "thrown"})
  /\ \A c \in Callers : (call[c].pc = "await") ~> (call[c].pc = "done")

\* a request has been answered after its producer's three attempts all failed
C12_Witness ==
  \E c \in Callers :
    /\ call[c].route = "pools" /\ call[c].pc = "done" /\ call[c].prod = "fail"
    /\ call[c].out = "throw"
    /\ fetchSt.pc = "idle"

\* C13: for every stablecoin record and incident count, the total of
\* scoreBreakdown equals scoreStablecoin
C13_BreakdownTotalIsScore ==
  scoreSt.op = "stablecoin" => scoreSt.breakdown.total = scoreSt.score

\* C14: for every platform record, the total of platformBreakdown equals
\* scorePlatform
C14_PlatformBreakdownTotalIsScore ==
  scoreSt.op = "platform" => scoreSt.breakdown.total = scoreSt.score

\* C15: every scorer returns a value in [1, 10] that is a whole number of
\* tenths (100..1000 in hundredths, divisible by 10)
IsScore(v) == v \in 100..1000 /\ v % 10 = 0
C15_ScoresInRange ==
  /\ scoreSt.op = "stablecoin" =>
        IsScore(scoreSt.score) /\ IsScore(scoreSt.breakdown.total) /\ IsScore(scoreSt.scoreV2)
  /\ scoreSt.op = "platform" =>
        IsScore(scoreSt.score) /\ IsScore(scoreSt.breakdown.total)
  /\ scoreSt.op = "platformV2" => IsScore(scoreSt.score)

\* a base of 7.27 with a recognized license: 7.87 is rounded to 7.9
C15_Witness ==
  /\ scoreSt.op = "platform"
  /\ scoreSt.p.scoreBase = 727 /\ scoreSt.p.licenses = <<"MSB", "EU VASP">>
  /\ scoreSt.p.auditor = "" /\ scoreSt.p.por = "N/A" /\ scoreSt.p.riskNotes = ""
  /\ scoreSt.score = 790 /\ scoreSt.breakdown.total = 790

\* C16: in every version scoreStablecoin is the clamp of 5 + 2 (NYDFS or
\* US (MSB) + auditor bonuses - 0.8 (crypto-collateralized) - 0.7 (offshore or
\* decentralized, in any letter case) + 1.5 (signal yes or likely)
\* - min(2, 0.7 * incidents).  Where the claim leaves the letter case of a
\* test open, either reading is accepted.
C16_Clamp(x) == MathMax(100, MathMin(1000, x))
C16_Rule(sc, n, anyCase) ==
  LET regulated == IF anyCase THEN TestRegulated(sc.jurisdiction)
                   ELSE includes(sc.jurisdiction, "NYDFS") \/ includes(sc.jurisdiction, "US (MSB")
      signal    == IF anyCase THEN toLowerCase(sc.genius) ELSE sc.genius
      auditor   == toLowerCase(sc.auditor)
  IN C16_Clamp(500
       + (IF regulated THEN 200 ELSE 0)
       + (IF includes(auditor, "grant thornton") THEN 100 ELSE 0)
       + (IF includes(auditor, "withum") THEN 80 ELSE 0)
       + (IF includes(auditor, "bdo") THEN 30 ELSE 0)
       - (IF sc.model = "crypto-collateralized" THEN 80 ELSE 0)
       - (IF includes(toLowerCase(sc.jurisdiction), "offshore")
             \/ includes(toLowerCase(sc.jurisdiction), "decentralized") THEN 70 ELSE 0)
       + (IF signal \in {"yes", "likely"} THEN 150 ELSE 0)
       - MathMin(200, 70 * n))
C16_EveryVersionFollowsRule ==
  scoreSt.op = "stablecoin" =>
    /\ \E anyCase \in BOOLEAN :
         scoreSt.score = C16_Rule(scoreSt.sc, scoreSt.incidents, anyCase)
    /\ \E anyCase \in BOOLEAN :
         scoreSt.scoreV2 = C16_Rule(scoreSt.sc, scoreSt.incidents, anyCase)

\* C17: platformScore is, for a CeFi platform, the clamp of 5 + 1.5 (kyc)
\* + 1 / 0.5 (por yes / partial) + 1 (audit) + 1 / 0.5 (license high / med)
\* + 0.3 (secAudit) - min(2, 0.8 * events); for a DeFi platform, the clamp of
\* 6 + 1 (onchain) + 1 (one audit) + 0.5 (two audits) + 0.5 (formal)
\* - 1.5 (algo) - 1 (depeg); a third audit adds nothing and the enforcement
\* penalty is at most 2
C17_CeFi(p) ==
  500 + (IF p.kyc THEN 150 ELSE 0)
      + (CASE p.por = "yes" -> 100 [] p.por = "partial" -> 50 [] OTHER -> 0)
      + (IF p.audit THEN 100 ELSE 0)
      + (CASE p.license = "high" -> 100 [] p.license = "med" -> 50 [] OTHER -> 0)
      + (IF p.secAudit THEN 30 ELSE 0)
      - (IF 80 * p.events > 200 THEN 200 ELSE 80 * p.events)
C17_DeFi(p) ==
  600 + (IF p.onchain THEN 100 ELSE 0)
      + (IF Len(p.audits) >= 1 THEN 100 ELSE 0)
      + (IF Len(p.audits) >= 2 THEN 50 ELSE 0)
      + (IF p.formal THEN 50 ELSE 0)
      - (IF p.algo THEN 150 ELSE 0)
      - (IF p.depeg THEN 100 ELSE 0)
C17_PlatformScoreRule ==
  scoreSt.op = "platformV2" =>
    LET p == scoreSt.p
        x == IF p.type = "DeFi" THEN C17_DeFi(p) ELSE C17_CeFi(p)
    IN /\ scoreSt.score = (IF x > 1000 THEN 1000 ELSE IF x < 100 THEN 100 ELSE x)
       /\ Len(p.audits) > 2 => scoreSt.score = platformScore([p EXCEPT !.audits = SubSeq(@, 1, 2)])
       /\ scoreSt.score >= platformScore([p EXCEPT !.events = 0]) - 200

\* three enforcement events cost 2, not 2.4
C17_Witness ==
  /\ scoreSt.op = "platformV2" /\ scoreSt.p.type = "CeFi"
  /\ scoreSt.p.kyc /\ scoreSt.p.por = "yes" /\ scoreSt.p.audit
  /\ scoreSt.p.license = "high" /\ scoreSt.p.secAudit /\ scoreSt.p.events = 3
  /\ scoreSt.score = 780

\* C18: a depeg alert is emitted for an entity exactly when its price is a
\* number with abs(1 - price) >= 0.015, with the high (critical) severity
\* exactly when abs(1 - price) >= 0.05, by buildAlerts and by the depeg monitor
C18_Deviates(e) == e.price.isNumber /\ MathAbs(1000 - e.price.v) >= 15
C18_Severe(e) == MathAbs(1000 - e.price.v) >= 50
C18_BuildAlertsRule ==
  alertSt.op = "alerts" =>
    LET expected == SelectSeq(alertSt.stablecoins, C18_Deviates)
        emitted  == SelectSeq(alertSt.alerts, LAMBDA a : a.type = "depeg")
    IN /\ Len(emitted) = Len(expected)
       /\ \A i \in 1..Len(expected) :
            /\ emitted[i].symbol = expected[i].symbol
            /\ (emitted[i].severity = "high") <=> C18_Severe(expected[i])
C18_MonitorRule ==
  alertSt.op = "monitor" =>
    LET expected == SelectSeq(alertSt.d, C18_Deviates)
        emitted  == alertSt.events
    IN /\ Len(emitted) = Len(expected)
       /\ \A i \in 1..Len(expected) :
            /\ emitted[i].entity_key = expected[i].symbol
            /\ (emitted[i].severity = "critical") <=> C18_Severe(expected[i])
C18_DepegRuleEverywhere == C18_BuildAlertsRule /\ C18_MonitorRule

\* C19: buildAlerts emits a regulatory alert for a news item exactly when the
\* lower-cased title contains a word of the enforcement vocabulary and the
\* name of a regulator
C19_Vocabulary == {"enforcement", "settlement", "charge", "lawsuit", "penalty", "consent order"}
C19_Regulators == {"sec", "cftc", "doj", "attorney general"}
C19_Matches(n) ==
  /\ \E w \in C19_Vocabulary : includes(toLowerCase(n.title), w)
  /\ \E r \in C19_Regulators : includes(toLowerCase(n.title), r)
C19_RegulatoryAlerts ==
  alertSt.op = "alerts" =>
    LET expected == SelectSeq(alertSt.news, C19_Matches)
        emitted  == SelectSeq(alertSt.alerts, LAMBDA a : a.type = "regulatory")
    IN /\ Len(emitted) = Len(expected)
       /\ \A i \in 1..Len(expected) :
            emitted[i].message = <<expected[i].title>> /\ emitted[i].severity = "info"

\* three items: both patterns, the regulator only, the vocabulary only
C19_Witness ==
  /\ alertSt.op = "alerts"
  /\ Len(alertSt.news) = 3
  /\ alertSt.news[1].title = "SEC adopts new custody rule"
  /\ alertSt.news[2].title = "Attorney General obtains Consent Order"
  /\ alertSt.news[3].title = "Lawsuit filed against stablecoin issuer"
  /\ Len(alertSt.alerts) = 1
  /\ alertSt.alerts[1].message = <<"Attorney General obtains Consent Order">>

\* C20: a feed's tracked timestamp changes only in a step in which a fetch
\* of that feed from its source succeeds (not when a cached or stale value is
\* served), and a run of the stale monitor alerts for exactly the feeds whose
\* timestamp is older than the threshold
C20_RefreshSucceeds(f) ==
  \E c \in Callers :
    /\ call[c].route = (IF f = "prices" THEN "prices" ELSE "pools")
    /\ call'[c].pc = "done" /\ call'[c].out = "return"
    /\ \/ call[c].pc = "await" /\ call'[c].prod = "ok"
       \/ call[c].pc = "fallback"
C20_SweepRule ==
  [][sweep'.seq # sweep.seq =>
       sweep'.stale = {f \in Feeds : (BootTime + clock') - statusTimes'[f] > StaleAfter[f]}]_vars
C20_TimestampIsLastRefresh ==
  [][/\ \A f \in Feeds : statusTimes'[f] # statusTimes[f] => C20_RefreshSucceeds(f)
     /\ sweep'.seq # sweep.seq =>
          sweep'.stale = {f \in Feeds : (BootTime + clock') - statusTimes'[f] > StaleAfter[f]}]_vars

\* C21: buildAlerts returns at most 50 alerts, and when the cut drops alerts
\* it drops no depeg alert while a regulatory alert is kept
C21_Count(seq, Test(_)) == Len(SelectSeq(seq, Test))
C21_CapKeepsDepegFirst ==
  alertSt.op = "alerts" =>
    LET derivedDepeg == C21_Count(alertSt.stablecoins, C18_Deviates)
        derivedReg   == C21_Count(alertSt.news, C19_Matches)
        keptDepeg    == C21_Count(alertSt.alerts, LAMBDA a : a.type = "depeg")
        keptReg      == C21_Count(alertSt.alerts, LAMBDA a : a.type = "regulatory")
    IN /\ Len(alertSt.alerts) <= 50
       /\ keptDepeg + keptReg = Len(alertSt.alerts)
       /\ keptDepeg <= derivedDepeg /\ keptReg <= derivedReg
       /\ Len(alertSt.alerts) = (IF derivedDepeg + derivedReg > 50 THEN 50
                                 ELSE derivedDepeg + derivedReg)
       /\ keptDepeg < derivedDepeg => keptReg = 0

\* 49 depeg alerts and 2 regulatory ones are derived: the cut drops the
\* second regulatory alert and keeps every depeg alert
C21_Witness ==
  /\ alertSt.op = "alerts"
  /\ C21_Count(alertSt.stablecoins, C18_Deviates) = 49
  /\ C21_Count(alertSt.news, C19_Matches) = 2
  /\ Len(alertSt.alerts) = 50
  /\ alertSt.alerts[49].type = "depeg" /\ alertSt.alerts[50].type = "regulatory"

\* C22: while a stale or depeg condition of one entity persists from one
\* monitor run to the next (or a high alert from one alerts request to the
\* next), the later run persists or forwards no further event for it
C22_Rows(sink, type, key) ==
  Len(SelectSeq(sink.rows, LAMBDA r : r.type = type /\ r.entity_key = key))
C22_Keys(events) == {events[i].entity_key : i \in 1..Len(events)}
C22_FirstHigh(alerts) == SelectSeq(alerts, LAMBDA a : a.severity = "high")
C22_NoRepeatedEvent ==
  [][/\ sweep'.seq # sweep.seq =>
          \A f \in sweep.stale \cap sweep'.stale :
            C22_Rows(sinkSt', "stale", f) = C22_Rows(sinkSt, "stale", f)
     /\ (sweep' = sweep /\ alertSt.op = "monitor" /\ alertSt'.op = "monitor") =>
          \A k \in C22_Keys(alertSt.events) \cap C22_Keys(alertSt'.events) :
            C22_Rows(sinkSt', "depeg", k) = C22_Rows(sinkSt, "depeg", k)
     /\ (sweep' = sweep /\ alertSt.op = "alerts" /\ alertSt'.op = "alerts"
           /\ Len(C22_FirstHigh(alertSt.alerts)) > 0
           /\ Len(C22_FirstHigh(alertSt'.alerts)) > 0
           /\ C22_FirstHigh(alertSt.alerts)[1].symbol = C22_FirstHigh(alertSt'.alerts)[1].symbol) =>
          sinkSt'.posts = sinkSt.posts]_vars

\* C30: without a database pool alert() does nothing and without a webhook
\* slackNotify does nothing, and what the monitors and buildAlerts derive does
\* not depend on the sinks
C30_UnconfiguredSinksAreNoOps ==
  /\ ~sinkSt.pool => sinkSt.rows = << >>
  /\ ~sinkSt.webhook => sinkSt.posts = << >>
  /\ alertSt.op = "alerts" =>
        alertSt.alerts = buildAlerts(alertSt.stablecoins, alertSt.news)
  /\ alertSt.op = "monitor" => alertSt.events = depegMonitor(alertSt.d)
  /\ sweep.seq = 1 =>
        sweep.stale = {f \in Feeds : (BootTime + clock) - statusTimes[f] > StaleAfter[f]}

\* no sink is configured; the stale monitor has found both feeds stale and an
\* alerts request has derived a high depeg alert
C30_Witness ==
  /\ ~sinkSt.pool /\ ~sinkSt.webhook
  /\ sweep.seq = 1 /\ sweep.stale = {"yields", "prices"}
  /\ alertSt.op = "alerts" /\ Len(alertSt.alerts) = 2
  /\ alertSt.alerts[1].severity = "high" /\ alertSt.alerts[2].type = "regulatory"
  /\ sinkSt.rows = << >> /\ sinkSt.posts = << >>

\* C23: the prices producer queries the secondary source, and returns its
\* mapping in full, exactly when every primary price is null; otherwise it
\* returns the primary mapping as it is and the secondary source is not queried
C23_AllOrNothingFallback ==
  (prodSt.op = "prices" /\ prodSt.pc \in {"cgFallback", "returned"}) =>
    LET everyNull == \A sym \in CG : prodSt.primary[sym].price = NullPrice
    IN /\ everyNull <=> prodSt.queried = <<"llama", "coingecko">>
       /\ ~everyNull => prodSt.queried = <<"llama">>
       /\ prodSt.pc = "returned" =>
            prodSt.result = IF everyNull THEN prodSt.secondary ELSE prodSt.primary

\* the primary source priced one symbol and not another, the producer has
\* returned the primary mapping with its null and coingecko was not queried
C23_Witness ==
  /\ prodSt.op = "prices" /\ prodSt.pc = "returned"
  /\ prodSt.primary["USDT"].price = Price(1000)
  /\ prodSt.primary["DAI"].price = NullPrice
  /\ prodSt.result = prodSt.primary
  /\ prodSt.queried = <<"llama">>

\* C29: the registries keep their initial values whatever was requested; the
\* derived fields are on the records of the response only
C29_Derived == {"score", "price", "supply", "pegDev", "complianceScore"}
C29_Records(reg) ==
  {reg.SEEDED_STABLES[i] : i \in 1..Len(reg.SEEDED_STABLES)}
    \cup {reg.SEEDED_PLATFORMS.cefi[i] : i \in 1..Len(reg.SEEDED_PLATFORMS.cefi)}
    \cup {reg.SEEDED_PLATFORMS.defi[i] : i \in 1..Len(reg.SEEDED_PLATFORMS.defi)}
    \cup {reg.SC[i] : i \in 1..Len(reg.SC)}
    \cup {reg.PLATFORMS[i] : i \in 1..Len(reg.PLATFORMS)}
C29_RegistriesReadOnly ==
  /\ registry = Registry
  /\ \A r \in C29_Records(registry) : DOMAIN r \cap C29_Derived = {}
  /\ (prodSt.op = "registry" /\ prodSt.fn \in {"stablecoins", "platforms"}) =>
        \A i \in 1..Len(prodSt.result) : "complianceScore" \in DOMAIN prodSt.result[i]
  /\ (prodSt.op = "registry" /\ prodSt.fn = "buildStablecoinList") =>
        \A i \in 1..Len(prodSt.result) : {"score", "price", "supply"} \subseteq DOMAIN prodSt.result[i]

\* GET /api/stablecoins has answered with priced and scored copies, sorted
C29_Witness ==
  /\ prodSt.op = "registry" /\ prodSt.fn = "stablecoins"
  /\ Len(prodSt.result) = 3
  /\ prodSt.result[1].symbol = "USDC" /\ prodSt.result[1].price = Price(970)
  /\ prodSt.result[1].complianceScore > prodSt.result[2].complianceScore
  /\ registry.SC[1].symbol = "USDT"

\* C24: getStablecoinSeriesForChain requests the candidates in order (the
\* chain, then its aliases, no name twice), returns a non-empty series from
\* the first candidate that yields one and requests no later one, goes on
\* after a candidate that failed or yielded nothing, and throws only when
\* every candidate failed
C24_Expected(chain) ==
  IF chain = "XRPL" THEN <<"XRPL", "XRP Ledger", "Ripple">> ELSE <<chain>>
C24_Yields(answer) == answer.kind = "array" /\ Len(answer.arr) > 0
C24_InOrder ==
  prodSt.op = "series" =>
    /\ Len(prodSt.queried) <= Len(C24_Expected(prodSt.chain))
    /\ prodSt.queried = SubSeq(C24_Expected(prodSt.chain), 1, Len(prodSt.queried))
    /\ \A i \in 1..Len(prodSt.answers) :
         i < Len(prodSt.queried) => ~C24_Yields(prodSt.answers[i])
C24_ThrowsWhenAllFailed ==
  (prodSt.op = "series" /\ prodSt.pc = "thrown") =>
    /\ prodSt.queried = C24_Expected(prodSt.chain)
    /\ Len(prodSt.answers) = Len(prodSt.queried)
    /\ \A i \in 1..Len(prodSt.answers) : ~C24_Yields(prodSt.answers[i])
C24_ReturnsNonEmpty ==
  (prodSt.op = "series" /\ prodSt.pc = "returned") =>
    /\ Len(prodSt.result) > 0
    /\ Len(prodSt.answers) = Len(prodSt.queried)
C24_FirstNonEmptySeries == C24_InOrder /\ C24_ThrowsWhenAllFailed /\ C24_ReturnsNonEmpty

\* C25: the news producer never throws; every item of every feed that
\* answered is merged whichever feeds failed; the result is the merged list
\* in descending order of published date, cut to 20
C25_Dated(it) == it.published.kind = "iso"
C25_Count(list, it) == Cardinality({i \in 1..Len(list) : list[i] = it})
C25_MergedSortedTruncated ==
  (prodSt.op = "news" /\ prodSt.pc = "returned") =>
    /\ Len(prodSt.result) = MathMin(NewsCap, Len(prodSt.acc))
    /\ \A i \in 1..Len(prodSt.result) :
         C25_Count(prodSt.result, prodSt.result[i]) <= C25_Count(prodSt.acc, prodSt.result[i])
    /\ \A i, j \in 1..Len(prodSt.result) :
         (i < j /\ C25_Dated(prodSt.result[i]) /\ C25_Dated(prodSt.result[j]))
           => prodSt.result[i].published.t >= prodSt.result[j].published.t
C25_FeedsIndependent ==
  /\ prodSt.op = "news" => prodSt.pc # "thrown"
  /\ (prodSt.op = "news" /\ prodSt.pc = "returned" /\ Len(prodSt.acc) <= NewsCap) =>
       \A i \in 1..Len(prodSt.acc) :
         C25_Count(prodSt.result, prodSt.acc[i]) = C25_Count(prodSt.acc, prodSt.acc[i])
C25_NewsContract == C25_FeedsIndependent /\ C25_MergedSortedTruncated

\* C26: when the yields upstream answers every attempt with a non-ok status,
\* the adapter throws, and the cache read that found an entry returns that
\* entry's value without error and leaves the entry as it was.
\* v2 (getAllPools): after three non-ok answers no fourth attempt is made,
\* fetchWithRetry throws and withCache returns the entry it had read
C26_ThreeStatusErrors == <<"status", "status", "status">>
C26_StaleAfterThreeErrors ==
  [][\A c \in Callers :
       (c \in PoolsAwaiting /\ fetchSt.log = C26_ThreeStatusErrors) =>
         /\ fetchSt'.pc \in {"backoff", "thrown", "idle"}
         /\ fetchSt'.pc = "thrown" => fetchSt'.err = "status" /\ fetchSt'.requests = DefaultAttempts
         /\ call'[c].pc = "done" =>
              /\ fetchSt.pc = "thrown"
              /\ call'[c].prod = "fail"
              /\ cache' = cache
              /\ call[c].entry.has =>
                   /\ call'[c].out = "return"
                   /\ call'[c].res = call[c].entry.v
                   /\ cache'["yields:pools"] = call[c].entry]_vars
\* v1.x (fetchYieldsFromLlama behind the inline check): a refresh whose
\* upstream answer was a non-ok status returns the value of the entry held
\* and leaves the entry as it was
C26_FailedRefreshKeepsEntry ==
  [][\A c \in Callers :
       (/\ call[c].pc = "await" /\ call[c].route = "yields"
        /\ call'[c].pc = "done" /\ call'[c].prod = "http"
        /\ call[c].entry.has /\ memory = call[c].entry) =>
         /\ memory' = memory
         /\ call'[c].out = "return"
         /\ call'[c].res = memory.v]_vars

\* C27: a request that found no cached value and whose fetch failed is
\* answered with an error, never with a success carrying an empty value
C27_ColdFailureIsExplicit ==
  \A c \in Callers :
    (/\ call[c].pc = "done" /\ ~call[c].entry.has
     /\ call[c].prod \in {"fail", "http", "malformed"}) =>
      call[c].out = "throw"

\* C28: an ok response whose body does not hold the expected array is handled
\* as a failed fetch: the step is taken without a crash, the cache is left as
\* it was, and the call returns the entry it had read, or throws without one
C28_BodyWithoutPools(c) ==
  /\ c \in PoolsAwaiting /\ fetchSt.pc = "returned"
  /\ call'[c].pc = "done" /\ call'[c].res # call[c].inv
C28_MalformedIsFailure ==
  [][\A c \in Callers :
       C28_BodyWithoutPools(c) =>
         /\ cache' = cache
         /\ call[c].entry.has => call'[c].out = "return" /\ call'[c].res = call[c].entry.v
         /\ ~call[c].entry.has => call'[c].out = "throw"]_vars

\* C31: a lookup of a symbol that no registry record carries is answered
\* not_found in one step, whatever cache.yields holds: no fetch is started
\* and cache.yields is left as it was
C31_Unregistered(sym) ==
  \A i \in 1..Len(SEEDED_STABLES) : toUpperCase(SEEDED_STABLES[i].symbol) # sym
C31_UnknownSymbolNotFound ==
  [][\A c \in Callers :
       (call[c].pc = "idle" /\ call'[c].route = "lookup" /\ C31_Unregistered(call'[c].sym)) =>
         /\ call'[c].pc = "done" /\ call'[c].out = "not_found"
         /\ call'[c].inv = 0 /\ call'[c].prod = "none"
         /\ nextInv' = nextInv
         /\ memory' = memory /\ memoryInv' = memoryInv]_vars

\* an unregistered symbol was answered not_found while cache.yields held an
\* expired empty list, which a registered symbol would have refreshed
C31_Witness ==
  \E c \in Callers :
    /\ call[c].route = "lookup" /\ call[c].sym = "XYZ"
    /\ call[c].pc = "done" /\ call[c].out = "not_found"
    /\ memory.has /\ memory.v = 0 /\ clock - memory.t > TTL_yields
    /\ call[c].t0 = clock

\* C32: when the producer fails, withCache returns the value of the entry it
\* read before it invoked the producer, whatever the cache holds for the key
\* by then
C32_FailureReturnsEntryReadAtEntry ==
  [][\A c \in Callers :
       (/\ call[c].pc = "await" /\ call[c].route = "withCache"
        /\ call'[c].prod = "fail" /\ call[c].entry.has) =>
         /\ call'[c].out = "return"
         /\ call'[c].res = call[c].entry.v
         /\ call'[c].entry = call[c].entry]_vars

\* a failed call returned the older value while the cache held the value a
\* concurrent call had stored in the meantime
C32_Witness ==
  \E c \in Callers :
    /\ call[c].pc = "done" /\ call[c].route = "withCache" /\ call[c].prod = "fail"
    /\ call[c].out = "return" /\ call[c].entry.has /\ call[c].res = call[c].entry.v
    /\ cache[call[c].key].v # call[c].res
    /\ cache[call[c].key].t >= call[c].t0

\* C33: a failed refresh that serves the stale value leaves the cache as it
\* was, and as long as no invocation has stored a value since, every later
\* read of the key with the same TTL invokes the producer again
C33_ServedStale(c) ==
  /\ call[c].pc = "done" /\ call[c].route = "withCache"
  /\ call[c].prod = "fail" /\ call[c].out = "return"
C33_FailedRefreshIsRetriedOnEveryRead ==
  [][/\ \A c \in Callers :
          (call[c].pc = "await" /\ call[c].route = "withCache" /\ call'[c].prod = "fail") =>
            cache' = cache
     /\ \A c, d \in Callers :
          (/\ C33_ServedStale(c) /\ cache[call[c].key] = call[c].entry
           /\ call[d].pc = "idle" /\ call'[d].route = "withCache"
           /\ call'[d].key = call[c].key /\ call'[d].ttl = call[c].ttl) =>
            /\ call'[d].pc = "await"
            /\ call'[d].inv = nextInv + 1 /\ nextInv' = nextInv + 1]_vars

\* after a stale value was served, a later read of the same key is awaiting
\* a new producer invocation, the entry still being the one that was served
C33_Witness ==
  \E c, d \in Callers :
    /\ C33_ServedStale(c) /\ cache[call[c].key] = call[c].entry
    /\ call[d].pc = "await" /\ call[d].route = "withCache"
    /\ call[d].key = call[c].key /\ call[d].ttl = call[c].ttl
    /\ call[d].inv > call[c].inv /\ call[d].entry = call[c].entry

\* C34: over every step the timestamp stored for a key does not decrease
\* and a key that has an entry keeps one
C34_TimestampsMonotoneEntriesKept ==
  [][\A k \in Keys :
       /\ cache'[k].t >= cache[k].t
       /\ cache[k].has => cache'[k].has]_vars

\* an entry was overwritten: the value a completed call stored has been
\* replaced by a later one with a later timestamp
C34_Witness ==
  \E c \in Callers :
    /\ call[c].pc = "done" /\ call[c].route = "withCache" /\ call[c].prod = "ok"
    /\ call[c].entry.has
    /\ cache[call[c].key].v # call[c].res
    /\ cache[call[c].key].t > call[c].entry.t

\* C36: every failed attempt i is followed by a sleep of backoffMs * (i + 1)
\* before the loop goes on or the call throws, the last attempt included, so
\* a call that throws after n failed attempts has slept backoffMs * n * (n + 1) / 2
C36_BackoffAfterEveryFailure ==
  [][/\ (fetchSt.pc = "request" /\ Len(fetchSt'.log) = Len(fetchSt.log) + 1
          /\ fetchSt'.log[Len(fetchSt'.log)] # "ok") =>
            (fetchSt'.pc = "backoff" /\ fetchSt'.waited = fetchSt.waited)
     /\ (fetchSt.pc = "backoff" /\ fetchSt'.pc # "backoff") =>
            fetchSt'.waited = fetchSt.waited + fetchSt.backoffMs * (fetchSt.i + 1)
     /\ (fetchSt'.pc = "thrown") =>
            \/ fetchSt'.pc = fetchSt.pc
            \/ /\ Len(fetchSt'.log) = fetchSt'.attempts
               /\ 2 * fetchSt'.waited =
                    fetchSt'.backoffMs * fetchSt'.attempts * (fetchSt'.attempts + 1)
               /\ (fetchSt'.attempts > 0 => fetchSt.pc = "backoff")]_vars

\* three attempts with backoffMs = 2 all failed: the call threw after
\* sleeping 2 + 4 + 6
C36_Witness ==
  /\ fetchSt.pc = "thrown" /\ fetchSt.attempts = 3 /\ fetchSt.backoffMs = 2
  /\ Len(fetchSt.log) = 3 /\ fetchSt.waited = 12

\* C39: a call with attempts <= 0 throws in its first step: no request, no
\* sleep, and the value thrown is the never assigned lastErr, undefined
C39_NoAttemptsThrowsUndefined ==
  [][(fetchSt.pc = "idle" /\ fetchSt'.pc # "idle" /\ fetchSt'.attempts <= 0) =>
       /\ fetchSt'.pc = "thrown"
       /\ fetchSt'.requests = 0 /\ fetchSt'.log = <<>>
       /\ fetchSt'.waited = 0
       /\ fetchSt'.err = "undefined"]_vars

\* a call with a negative attempt count has thrown undefined
C39_Witness ==
  /\ fetchSt.pc = "thrown" /\ fetchSt.attempts < 0
  /\ fetchSt.requests = 0 /\ fetchSt.waited = 0 /\ fetchSt.err = "undefined"

\* C37: the value the /api/prices handler gets from its own cgFallback()
\* call after the producer failed with no entry is answered and never
\* stored: the step leaves the cache as it is, the cache never holds that
\* value, and a request that finds no "prices" entry invokes the producer
C37_ViaFallback(c) ==
  /\ call[c].pc = "done" /\ call[c].route = "prices"
  /\ call[c].prod = "fail" /\ ~call[c].entry.has /\ call[c].out = "return"
C37_FallbackValueNotCached ==
  [][/\ \A c \in Callers :
          (call[c].pc = "fallback" /\ call'[c].pc = "done" /\ call'[c].out = "return") =>
            /\ ~call[c].entry.has /\ call'[c].prod = "fail"
            /\ call'[c].res = call[c].inv /\ call'[c].res # 0
            /\ cache' = cache /\ lastOk' = lastOk
     /\ \A c \in Callers :
          C37_ViaFallback(c)' =>
            ~(cache'["prices"].has /\ cache'["prices"].v = call'[c].res)
     /\ \A d \in Callers :
          (call[d].pc = "idle" /\ call'[d].route = "prices" /\ ~cache["prices"].has) =>
            (call'[d].pc = "await" /\ call'[d].inv = nextInv + 1)]_vars

\* a request was answered from the direct cgFallback() call, "prices" still
\* has no entry, and the next request is waiting for a new producer invocation
C37_Witness ==
  \E c, d \in Callers :
    /\ C37_ViaFallback(c) /\ call[c].res = call[c].inv
    /\ ~cache["prices"].has
    /\ call[d].pc = "await" /\ call[d].route = "prices"
    /\ call[d].inv > call[c].inv /\ ~call[d].entry.has

\* C38: a run of the stale monitor hands a stale alert to alert() for every
\* feed whose tracked timestamp is still 0, at the first run and at every
\* later one, and with a database configured the alert is inserted
C38_NeverRefreshedIsStale ==
  [][sweep'.seq # sweep.seq =>
       \A f \in Feeds :
         statusTimes[f] = 0 =>
           /\ f \in sweep'.stale
           /\ sinkSt.pool =>
                \E j \in (Len(sinkSt.rows) + 1)..Len(sinkSt'.rows) :
                  /\ sinkSt'.rows[j].type = "stale"
                  /\ sinkSt'.rows[j].entity_key = f]_vars

\* two runs of the monitor found both feeds never refreshed and inserted a
\* stale alert for each feed each time
C38_Witness ==
  /\ statusTimes.yields = 0 /\ statusTimes.prices = 0
  /\ sweep.stale = Feeds /\ sweep.seq = 0
  /\ sinkSt.pool /\ Len(sinkSt.rows) = 4
  /\ sinkSt.rows[3].entity_key = "yields" /\ sinkSt.rows[4].entity_key = "prices"
  /\ clock > 0

\* C35: a news producer whose feeds all failed returns the empty list, and
\* withCache stores it with the current time over whatever list the key held;
\* no news request ends with a failed producer
C35_AllFeedsFailed == prodSt.op = "news" /\ prodSt.failed = {NewsFeeds[i] : i \in 1..Len(NewsFeeds)}
C35_EmptyNewsReplacesEntry ==
  [][/\ \A c \in Callers :
          (/\ call[c].pc = "await" /\ call[c].route = "news"
           /\ call'[c].pc = "done" /\ C35_AllFeedsFailed) =>
            /\ call'[c].prod = "ok" /\ call'[c].out = "return" /\ call'[c].res = << >>
            /\ cache'[NewsKey] = [has |-> TRUE, v |-> << >>, t |-> clock]
     /\ C35_AllFeedsFailed' => prodSt'.pc \in {"awaiting", "returned"}
     /\ (prodSt'.op = "news" /\ prodSt'.pc = "returned" /\ C35_AllFeedsFailed') =>
            prodSt'.result = << >>
     /\ \A c \in Callers :
          call'[c].route = "news" => (call'[c].prod # "fail" /\ call'[c].out # "throw")]_vars

\* a request that had read an expired list of news items was answered the
\* empty list, which now is the cached value with a later timestamp
C35_Witness ==
  \E c \in Callers :
    /\ call[c].pc = "done" /\ call[c].route = "news" /\ call[c].prod = "ok"
    /\ call[c].entry.has /\ Len(call[c].entry.v) > 0
    /\ call[c].res = << >>
    /\ cache[NewsKey].has /\ cache[NewsKey].v = << >>
    /\ cache[NewsKey].t >= call[c].entry.t + TTL_news

====
